---- MODULE Spec2Model ----
(***************************************************************************)
(* Model of the warranty dashboard (src/main.py): the four process_*       *)
(* functions that startup runs once to fill WARRANTY_DATA, and the request *)
(* handlers that serve it afterwards.                                      *)
(*                                                                         *)
(* Strings are sequences of one-character strings, so that strip(),        *)
(* upper(), startswith(), the slice [:3] and Python's lexical order can be *)
(* computed.  A missing (NaN) text cell is the one-element sequence NaN,   *)
(* whose element is no character.  A numeric cell of a summary table is    *)
(* <<v>> for the number v and <<>> for NaN.  Amounts are integers.         *)
(* pandas behaviour is that of pandas >= 1.5.                              *)
(***************************************************************************)
EXTENDS Integers, Sequences, FiniteSets, TLC

\* ------------------------------------------------------------------ bounds
MaxRows == 3
MaxSideRows == 2
MaxServedRows == 2
MaxAverageRows == 3

\* ----------------------------------------------------------------- strings
\* The characters that occur in the model, in ascending code point order.
ASCII ==
  << " ", "-", ".", "0", "1", "2", "3", "4", "5", "6", "7", "8", "9",
     "A", "B", "C", "D", "E", "F", "G", "H", "I", "J", "K", "L", "M",
     "N", "O", "P", "Q", "R", "S", "T", "U", "V", "W", "X", "Y", "Z",
     "_",
     "a", "b", "c", "d", "e", "f", "g", "h", "i", "j", "k", "l", "m",
     "n", "o", "p", "q", "r", "s", "t", "u", "v", "w", "x", "y", "z" >>

\* Position of a character in ASCII: order-isomorphic to Python's ord().
Ord(c) == CHOOSE i \in 1..Len(ASCII) : ASCII[i] = c

\* str.upper() on one character.
UpperChar(c) == IF Ord(c) >= 41 THEN ASCII[Ord(c) - 27] ELSE c

\* str.upper()
Upper(s) == [i \in 1..Len(s) |-> UpperChar(s[i])]

IsSpace(c) == c = " "

RECURSIVE LStrip(_)
LStrip(s) == IF s # <<>> /\ IsSpace(s[1]) THEN LStrip(Tail(s)) ELSE s

RECURSIVE RStrip(_)
RStrip(s) ==
  IF s # <<>> /\ IsSpace(s[Len(s)]) THEN RStrip(SubSeq(s, 1, Len(s) - 1)) ELSE s

\* str.strip()
Strip(s) == RStrip(LStrip(s))

\* str.startswith(p)
StartsWith(s, p) == Len(s) >= Len(p) /\ SubSeq(s, 1, Len(p)) = p

\* s[:n]
Prefix(s, n) == SubSeq(s, 1, IF Len(s) < n THEN Len(s) ELSE n)

\* Python's s < t on str: lexical order by code point.
RECURSIVE StrLess(_, _)
StrLess(s, t) ==
  IF t = <<>> THEN FALSE
  ELSE IF s = <<>> THEN TRUE
  ELSE IF s[1] = t[1] THEN StrLess(Tail(s), Tail(t))
  ELSE Ord(s[1]) < Ord(t[1])

\* A missing cell (float NaN) of a text column.
NaN == <<"NaN">>

\* pd.isna on a text cell
IsNaText(x) == x = NaN

\* Series.astype(str) on a text cell: NaN becomes the string 'nan'.
AsTypeStr(x) == IF IsNaText(x) THEN <<"n", "a", "n">> ELSE x

\* A numeric cell of a summary table.
Num(v) == <<v>>
NaNum == <<>>
IsNaNum(c) == c = NaNum
Val(c) == c[1]

\* A raw amount cell is <<"num", v>>, <<"text", 0>> (a non-numeric text)
\* or <<"nan", 0>> (empty cell).
\* pd.to_numeric(col, errors='coerce').fillna(0)
ToNumeric(cell) == IF cell[1] = "num" THEN cell[2] ELSE 0

\* --------------------------------------------------------------- sequences
RECURSIVE SumSeq(_)
SumSeq(s) == IF s = <<>> THEN 0 ELSE s[1] + SumSeq(Tail(s))

\* Series.unique(): the distinct values in order of first appearance.
RECURSIVE Unique(_)
Unique(s) ==
  IF s = <<>> THEN <<>>
  ELSE LET u == Unique(SubSeq(s, 1, Len(s) - 1))
           x == s[Len(s)]
       IN IF \E i \in 1..Len(u) : u[i] = x THEN u ELSE Append(u, x)

\* Insertion of x into the ascending sequence s.
RECURSIVE InsertSorted(_, _)
InsertSorted(x, s) ==
  IF s = <<>> THEN <<x>>
  ELSE IF StrLess(x, s[1]) THEN <<x>> \o s
  ELSE <<s[1]>> \o InsertSorted(x, Tail(s))

\* sorted(list of str)
RECURSIVE Sorted(_)
Sorted(s) == IF s = <<>> THEN <<>> ELSE InsertSorted(s[1], Sorted(Tail(s)))

\* sorted() raises TypeError when it has to compare a float NaN with a str.
SortedRaises(s) ==
  /\ \E i \in 1..Len(s) : IsNaText(s[i])
  /\ \E i \in 1..Len(s) : ~IsNaText(s[i])

\* ------------------------------------------------------- string literals
AMRAVATI == <<"A", "M", "R", "A", "V", "A", "T", "I">>
CHAUFULA_SZZ == <<"C", "H", "A", "U", "F", "U", "L", "A", "_", "S", "Z", "Z">>
CHIKHALI == <<"C", "H", "I", "K", "H", "A", "L", "I">>
KOLHAPUR_WS == <<"K", "O", "L", "H", "A", "P", "U", "R", "_", "W", "S">>
NAGPUR_KAMPTHEE_ROAD == <<"N", "A", "G", "P", "U", "R", "_", "K", "A", "M", "P", "T", "H", "E", "E", " ", "R", "O", "A", "D">>
NAGPUR_WARDHAMAN_NGR == <<"N", "A", "G", "P", "U", "R", "_", "W", "A", "R", "D", "H", "A", "M", "A", "N", " ", "N", "G", "R">>
SHIKRAPUR_SZS == <<"S", "H", "I", "K", "R", "A", "P", "U", "R", "_", "S", "Z", "S">>
WAGHOLI == <<"W", "A", "G", "H", "O", "L", "I">>
YAVATMAL == <<"Y", "A", "V", "A", "T", "M", "A", "L">>
NAGPUR_WARDHAMAN_NGR_CQ == <<"N", "A", "G", "P", "U", "R", "_", "W", "A", "R", "D", "H", "A", "M", "A", "N", " ", "N", "G", "R", "_", "C", "Q">>
AMT == <<"A", "M", "T">>
CHA == <<"C", "H", "A">>
CHI == <<"C", "H", "I">>
KOL == <<"K", "O", "L">>
HO == <<"H", "O">>
CITY == <<"C", "I", "T", "Y">>
SHI == <<"S", "H", "I">>
WAG == <<"W", "A", "G">>
YAT == <<"Y", "A", "T">>
CQ == <<"C", "Q">>
Apr == <<"A", "p", "r">>
May == <<"M", "a", "y">>
Jun == <<"J", "u", "n">>
Jul == <<"J", "u", "l">>
Aug == <<"A", "u", "g">>
Sep == <<"S", "e", "p">>
Oct == <<"O", "c", "t">>
Nov == <<"N", "o", "v">>
GrandTotal == <<"G", "r", "a", "n", "d", " ", "T", "o", "t", "a", "l">>

\* dealer_mapping of process_warranty_data
dealer_mapping ==
  (AMRAVATI :> AMT) @@
  (CHAUFULA_SZZ :> CHA) @@
  (CHIKHALI :> CHI) @@
  (KOLHAPUR_WS :> KOL) @@
  (NAGPUR_KAMPTHEE_ROAD :> HO) @@
  (NAGPUR_WARDHAMAN_NGR :> CITY) @@
  (SHIKRAPUR_SZS :> SHI) @@
  (WAGHOLI :> WAG) @@
  (YAVATMAL :> YAT) @@
  (NAGPUR_WARDHAMAN_NGR_CQ :> CQ)

\* months of process_warranty_data
months == <<Apr, May, Jun, Jul, Aug, Sep, Oct, Nov>>

\* ------------------------------------------------------------- data frames
\* A summary table is [columns |-> sequence of column names, rows |->
\* sequence of rows]; a row maps each column name to a cell.  A column
\* name is a tuple: <<"Division">>, <<"Credit Note", Apr>>, ...
DivisionCol == <<"Division">>

\* The float 0.0 that DataFrame.fillna(0) puts in a NaN Division cell.
ZeroText == <<"0.0">>

\* None, and a value that is not None.
None == <<>>
Some(x) == <<x>>
IsNone(x) == x = None
Get(x) == x[1]

\* pd.DataFrame({'Division': dealers})
DivisionFrame(dealers) ==
  [columns |-> <<DivisionCol>>,
   rows |-> [i \in 1..Len(dealers) |-> (DivisionCol :> dealers[i])]]

\* Mutant of GroupBySum: the sum is taken over all the rows of the month,
\* whatever their key.
GroupBySumAllKeys(data, col) ==
  [k \in {data[i]["Dealer_Code"] : i \in 1..Len(data)} \ {NaN} |->
     SumSeq([i \in 1..Len(data) |-> data[i][col]])]

\* Mutant of GroupBySum: .first() instead of .sum().
GroupBySumFirst(data, col) ==
  [k \in {data[i]["Dealer_Code"] : i \in 1..Len(data)} \ {NaN} |->
     data[CHOOSE i \in 1..Len(data) :
            /\ data[i]["Dealer_Code"] = k
            /\ \A j \in 1..(i - 1) : data[j]["Dealer_Code"] # k][col]]

\* month_data.groupby('Dealer_Code')[col].sum(): the sum of col per key;
\* groupby drops the rows whose key is NaN.
GroupBySum(data, col) ==
  [k \in {data[i]["Dealer_Code"] : i \in 1..Len(data)} \ {NaN} |->
     SumSeq([i \in 1..Len(data) |->
               IF data[i]["Dealer_Code"] = k THEN data[i][col] ELSE 0])]

\* table.merge(summary, on='Division', how='left'), summary holding one
\* value per key: the new column is NaN where the key is absent.
MergeLeft(table, summary, name) ==
  [columns |-> Append(table.columns, name),
   rows |-> [i \in 1..Len(table.rows) |->
               LET d == table.rows[i][DivisionCol]
               IN table.rows[i] @@
                  (name :> IF d \in DOMAIN summary THEN Num(summary[d])
                           ELSE NaNum)]]

\* table[name] = v
AssignColumn(table, name, v) ==
  [columns |-> Append(table.columns, name),
   rows |-> [i \in 1..Len(table.rows) |-> table.rows[i] @@ (name :> Num(v))]]

\* Mutant of FillNa: fillna(0) without assignment, the table is unchanged.
FillNaDiscarded(table) == table

\* table.fillna(0): every NaN cell, of the Division column too, becomes 0.
FillNa(table) ==
  [columns |-> table.columns,
   rows |-> [i \in 1..Len(table.rows) |->
               [c \in DOMAIN table.rows[i] |->
                  LET x == table.rows[i][c]
                  IN IF c = DivisionCol
                       THEN (IF IsNaText(x) THEN ZeroText ELSE x)
                       ELSE (IF IsNaNum(x) THEN Num(0) ELSE x)]]]

\* table[cols].sum(axis=1) for one row: NaN cells are skipped.
RowSum(row, cols) ==
  SumSeq([j \in 1..Len(cols) |->
            IF IsNaNum(row[cols[j]]) THEN 0 ELSE Val(row[cols[j]])])

\* table[c].sum(): NaN cells are skipped.
ColSum(table, c) ==
  SumSeq([i \in 1..Len(table.rows) |->
            IF IsNaNum(table.rows[i][c]) THEN 0 ELSE Val(table.rows[i][c])])

\* Mutant of AppendGrandTotal: the loop starts at table.columns[2:], the
\* first numeric column of the Grand Total row stays NaN.
AppendGrandTotalFromThird(table) ==
  [columns |-> table.columns,
   rows |-> Append(table.rows,
              [c \in {table.columns[j] : j \in 1..Len(table.columns)} |->
                 IF c = table.columns[1] THEN GrandTotal
                 ELSE IF Len(table.columns) >= 2 /\ c = table.columns[2]
                   THEN NaNum
                 ELSE Num(ColSum(table, c))])]

\* grand_total = {'Division': 'Grand Total'}; for col in table.columns[1:]:
\* grand_total[col] = table[col].sum(); pd.concat([table, grand_total]).
AppendGrandTotal(table) ==
  [columns |-> table.columns,
   rows |-> Append(table.rows,
              [c \in {table.columns[j] : j \in 1..Len(table.columns)} |->
                 IF c = table.columns[1] THEN GrandTotal
                 ELSE Num(ColSum(table, c))])]

\* ---------------------------------------------------- process_warranty_data
WarrantyColumns ==
  {"Total Claim Amount", "Credit Note Amount", "Debit Note Amount",
   "Dealer Location", "Fiscal Month", "Claim arbitration ID"}

\* Mutant of DealerCode: the location is stripped before the lookup.
DealerCodeStripped(loc) ==
  IF Strip(loc) \in DOMAIN dealer_mapping THEN dealer_mapping[Strip(loc)]
  ELSE Strip(loc)

\* Mutant of DealerCode: no .fillna(), an unmapped location gives NaN.
DealerCodeNoFillna(loc) ==
  IF loc \in DOMAIN dealer_mapping THEN dealer_mapping[loc] ELSE NaN

\* df['Dealer Location'].map(dealer_mapping).fillna(df['Dealer Location'])
DealerCode(loc) ==
  IF loc \in DOMAIN dealer_mapping THEN dealer_mapping[loc] ELSE loc

\* Mutant of MonthKey: no .str.strip() before the slice.
MonthKeyUnstripped(fiscal) == Prefix(AsTypeStr(fiscal), 3)

\* df['Fiscal Month'].astype(str).str.strip().str[:3]
MonthKey(fiscal) == Prefix(Strip(AsTypeStr(fiscal)), 3)

\* df['Claim arbitration ID'].astype(str).replace('nan', '').replace('', np.nan)
CleanArbId(id) ==
  LET s  == AsTypeStr(id)
      s1 == IF s = <<"n", "a", "n">> THEN <<>> ELSE s
  IN IF s1 = <<>> THEN NaN ELSE s1

\* Mutant of is_arbitration: no .upper(), the test is case sensitive.
is_arbitrationCaseSensitive(value) ==
  IF IsNaText(value) THEN FALSE
  ELSE LET v == Strip(value)
       IN StartsWith(v, <<"A", "R", "B">>) /\ v # <<"N", "A", "N">>

\* is_arbitration(value) of process_warranty_data
is_arbitration(value) ==
  IF IsNaText(value) THEN FALSE
  ELSE LET v == Upper(Strip(value))
       IN StartsWith(v, <<"A", "R", "B">>) /\ v # <<"N", "A", "N">>

\* The raw row after the cleaning steps: the data frame df that
\* process_warranty_data aggregates and returns as source_df.
CleanRow(r) ==
  ("Dealer Location" :> r["Dealer Location"]) @@
  ("Fiscal Month" :> r["Fiscal Month"]) @@
  ("Claim arbitration ID" :> CleanArbId(r["Claim arbitration ID"])) @@
  ("Credit Note Amount" :> ToNumeric(r["Credit Note Amount"])) @@
  ("Debit Note Amount" :> ToNumeric(r["Debit Note Amount"])) @@
  ("Dealer_Code" :> DealerCode(r["Dealer Location"])) @@
  ("Month" :> MonthKey(r["Fiscal Month"]))

CleanFrame(rows) == [i \in 1..Len(rows) |-> CleanRow(rows[i])]

\* Mutant of Dealers: no sorted(), the codes stay in order of appearance.
DealersUnsorted(df) == Unique([i \in 1..Len(df) |-> df[i]["Dealer_Code"]])

\* dealers = sorted(df['Dealer_Code'].unique()), when sorted() does not raise
Dealers(df) == Sorted(Unique([i \in 1..Len(df) |-> df[i]["Dealer_Code"]]))

\* df[df['Month'] == month]
MonthData(df, month) == SelectSeq(df, LAMBDA r : r["Month"] = month)

\* The month loop of the credit and of the debit table, from months[k] on.
RECURSIVE AmountLoop(_, _, _, _, _)
AmountLoop(table, df, amount, label, k) ==
  IF k > Len(months) THEN table
  ELSE LET month == months[k]
           month_data == MonthData(df, month)
           next == IF month_data # <<>>
                     THEN MergeLeft(table, GroupBySum(month_data, amount),
                                    <<label, month>>)
                     ELSE AssignColumn(table, <<label, month>>, 0)
       IN AmountLoop(next, df, amount, label, k + 1)

\* Mutant of AddTotal: the first monthly column is left out of the sum.
AddTotalWithoutFirst(table, cols, total) ==
  [columns |-> Append(table.columns, total),
   rows |-> [i \in 1..Len(table.rows) |->
               table.rows[i] @@
               (total :> Num(RowSum(table.rows[i], Tail(cols))))]]

\* table[total] = table[columns].sum(axis=1)
AddTotal(table, cols, total) ==
  [columns |-> Append(table.columns, total),
   rows |-> [i \in 1..Len(table.rows) |->
               table.rows[i] @@ (total :> Num(RowSum(table.rows[i], cols)))]]

MonthColumns(label) == [k \in 1..Len(months) |-> <<label, months[k]>>]

\* 1. CREDIT NOTE TABLE
CreditTable(df, dealers) ==
  AppendGrandTotal(
    AddTotal(FillNa(AmountLoop(DivisionFrame(dealers), df,
                               "Credit Note Amount", "Credit Note", 1)),
             MonthColumns("Credit Note"), <<"Total Credit">>))

\* 2. DEBIT NOTE TABLE
DebitTable(df, dealers) ==
  AppendGrandTotal(
    AddTotal(FillNa(AmountLoop(DivisionFrame(dealers), df,
                               "Debit Note Amount", "Debit Note", 1)),
             MonthColumns("Debit Note"), <<"Total Debit">>))

\* month_data['Arbitration_Amount']: the debit amount of the rows whose
\* Is_ARB is true, 0 for the others.
ArbitrationAmount(month_data) ==
  [i \in 1..Len(month_data) |->
     month_data[i] @@
     ("Arbitration_Amount" :>
        IF is_arbitration(month_data[i]["Claim arbitration ID"])
          THEN month_data[i]["Debit Note Amount"] ELSE 0)]

\* The month loop of the arbitration table, from months[k] on.  There is no
\* test for an empty month: apply(axis=1) on the empty month_data gives an
\* empty Series (pandas >= 1.5), the group sums are empty and the merged
\* column is NaN until fillna(0).
RECURSIVE ArbitrationLoop(_, _, _)
ArbitrationLoop(table, df, k) ==
  IF k > Len(months) THEN table
  ELSE LET month == months[k]
           month_data == ArbitrationAmount(MonthData(df, month))
       IN ArbitrationLoop(
            MergeLeft(table, GroupBySum(month_data, "Arbitration_Amount"),
                      <<"Claim Arbitration", month>>),
            df, k + 1)

\* debit_df[debit_df['Division'] != 'Grand Total'][['Division', 'Total Debit']]
TotalDebitByDealer(debit_df) ==
  LET rows == SelectSeq(debit_df.rows, LAMBDA r : r[DivisionCol] # GrandTotal)
  IN [d \in {rows[i][DivisionCol] : i \in 1..Len(rows)} |->
        Val(rows[CHOOSE i \in 1..Len(rows) : rows[i][DivisionCol] = d]
                [<<"Total Debit">>])]

\* arbitration_df['Pending Claim Arbitration'] = arbitration_df['Total Debit']
\*   - arbitration_df[arbitration_cols].sum(axis=1); NaN - x is NaN.
AddPending(table, arbitration_cols) ==
  [columns |-> Append(table.columns, <<"Pending Claim Arbitration">>),
   rows |-> [i \in 1..Len(table.rows) |->
               LET row == table.rows[i]
               IN row @@
                  (<<"Pending Claim Arbitration">> :>
                     IF IsNaNum(row[<<"Total Debit">>]) THEN NaNum
                     ELSE Num(Val(row[<<"Total Debit">>])
                              - RowSum(row, arbitration_cols)))]]

\* table.drop(name, axis=1)
DropColumn(table, name) ==
  [columns |-> SelectSeq(table.columns, LAMBDA c : c # name),
   rows |-> [i \in 1..Len(table.rows) |->
               [c \in DOMAIN table.rows[i] \ {name} |-> table.rows[i][c]]]]

\* 3. CLAIM ARBITRATION TABLE
ArbitrationTable(df, dealers, debit_df) ==
  AppendGrandTotal(
    DropColumn(
      AddPending(
        MergeLeft(FillNa(ArbitrationLoop(DivisionFrame(dealers), df, 1)),
                  TotalDebitByDealer(debit_df), <<"Total Debit">>),
        MonthColumns("Claim Arbitration")),
      <<"Total Debit">>))

\* The four values process_warranty_data returns when it fails.
WarrantyFailed ==
  [credit_df |-> None, debit_df |-> None, arbitration_df |-> None,
   source_df |-> None]

\* Mutant of process_warranty_data: a missing column fails only the tables
\* built after the credit table, which is returned with the cleaned records.
process_warranty_dataPartial(file) ==
  IF ~file.exists THEN WarrantyFailed
  ELSE LET df == CleanFrame(file.rows)
       IN IF SortedRaises([i \in 1..Len(df) |-> df[i]["Dealer_Code"]])
            THEN WarrantyFailed
          ELSE IF ~(WarrantyColumns \subseteq file.columns)
            THEN [credit_df |-> Some(CreditTable(df, Dealers(df))),
                  debit_df |-> None, arbitration_df |-> None,
                  source_df |-> Some(df)]
          ELSE LET dealers == Dealers(df)
                   debit_df == DebitTable(df, dealers)
               IN [credit_df |-> Some(CreditTable(df, dealers)),
                   debit_df |-> Some(debit_df),
                   arbitration_df |-> Some(ArbitrationTable(df, dealers, debit_df)),
                   source_df |-> Some(df)]

\* process_warranty_data() on the workbook file: the sheet is missing, a
\* required column is missing (KeyError) or sorted() raises (TypeError):
\* the except clauses return four None.
process_warranty_data(file) ==
  IF ~file.exists \/ ~(WarrantyColumns \subseteq file.columns) THEN WarrantyFailed
  ELSE LET df == CleanFrame(file.rows)
       IN IF SortedRaises([i \in 1..Len(df) |-> df[i]["Dealer_Code"]])
            THEN WarrantyFailed
          ELSE LET dealers == Dealers(df)
                   debit_df == DebitTable(df, dealers)
               IN [credit_df |-> Some(CreditTable(df, dealers)),
                   debit_df |-> Some(debit_df),
                   arbitration_df |-> Some(ArbitrationTable(df, dealers, debit_df)),
                   source_df |-> Some(df)]

\* ------------------------------------------- Division cleaning (all three)
\* df['Division'].astype(str).str.strip()
CleanDivision(x) == Strip(AsTypeStr(x))

\* df[df['Division'].notna() & (df['Division'] != '') & (df['Division'] != 'nan')]
\* on the cleaned column.
ValidDivision(d) == d # <<>> /\ d # <<"n", "a", "n">>

\* The rows with their Division cleaned, the invalid ones removed.
CleanDivisionRows(rows) ==
  SelectSeq([i \in 1..Len(rows) |->
               [rows[i] EXCEPT !["Division"] = CleanDivision(@)]],
            LAMBDA r : ValidDivision(r["Division"]))

\* sorted(df['Division'].unique())
Divisions(df) == Sorted(Unique([i \in 1..Len(df) |-> df[i]["Division"]]))

\* df[df['Division'] == division]
DivData(df, division) == SelectSeq(df, LAMBDA r : r["Division"] = division)

\* pd.notna on a raw cell
NotNa(cell) == cell[1] # "nan"

\* pd.DataFrame(): no column, no row.
EmptyFrame == [columns |-> <<>>, rows |-> <<>>]

\* -------------------------------------------- process_current_month_warranty
CurrentMonthRequired ==
  {"Division", "Pending Claims Spares", "Pending Claims Labour"}

CurrentMonthColumns ==
  <<DivisionCol, <<"Pending Claims Spares Count">>,
    <<"Pending Claims Labour Count">>, <<"Total Pending Claims">>>>

\* Mutant of CurrentMonthSummary: len(div_data) instead of .notna().sum(),
\* the empty cells are counted too.
CurrentMonthSummaryCountsRows(df) ==
  LET divs == Divisions(df)
  IN [i \in 1..Len(divs) |->
        LET div_data == DivData(df, divs[i])
        IN (DivisionCol :> divs[i]) @@
           (<<"Pending Claims Spares Count">> :> Num(Len(div_data))) @@
           (<<"Pending Claims Labour Count">> :> Num(Len(div_data))) @@
           (<<"Total Pending Claims">> :> Num(2 * Len(div_data)))]

\* summary_data of process_current_month_warranty
CurrentMonthSummary(df) ==
  LET divs == Divisions(df)
  IN [i \in 1..Len(divs) |->
        LET div_data == DivData(df, divs[i])
            spares_count ==
              Len(SelectSeq(div_data,
                            LAMBDA r : NotNa(r["Pending Claims Spares"])))
            labour_count ==
              Len(SelectSeq(div_data,
                            LAMBDA r : NotNa(r["Pending Claims Labour"])))
        IN (DivisionCol :> divs[i]) @@
           (<<"Pending Claims Spares Count">> :> Num(spares_count)) @@
           (<<"Pending Claims Labour Count">> :> Num(labour_count)) @@
           (<<"Total Pending Claims">> :> Num(spares_count + labour_count))]

CurrentMonthFailed == [summary |-> None, source |-> None]

\* process_current_month_warranty(): a missing file or column returns
\* (None, None); with no valid row pd.DataFrame([]) has no column, the
\* grand total raises KeyError and the except clause returns (None, None).
process_current_month_warranty(file) ==
  IF ~file.exists \/ ~(CurrentMonthRequired \subseteq file.columns)
    THEN CurrentMonthFailed
  ELSE LET df == CleanDivisionRows(file.rows)
           summary_data == CurrentMonthSummary(df)
       IN IF summary_data = <<>> THEN CurrentMonthFailed
          ELSE [summary |->
                  Some(AppendGrandTotal([columns |-> CurrentMonthColumns,
                                         rows |-> summary_data])),
                source |-> Some(df)]

\* ------------------------------------------------------ rational numbers
\* A mean is the fraction <<n, d>> in lowest terms, d > 0.
RECURSIVE GCD(_, _)
GCD(a, b) == IF b = 0 THEN a ELSE GCD(b, a % b)

Abs(a) == IF a < 0 THEN -a ELSE a

Frac(n, d) ==
  LET g == GCD(Abs(n), d) IN IF g = 0 THEN <<0, 1>> ELSE <<n \div g, d \div g>>

FracAdd(p, q) == Frac(p[1] * q[2] + q[1] * p[2], p[2] * q[2])

RECURSIVE FracSum(_)
FracSum(s) == IF s = <<>> THEN <<0, 1>> ELSE FracAdd(s[1], FracSum(Tail(s)))

\* Series.mean() of the integers s, s not empty.
Mean(s) == Frac(SumSeq(s), Len(s))

\* Series.mean() of the fractions s, s not empty.
FracMean(s) == LET t == FracSum(s) IN Frac(t[1], t[2] * Len(s))

\* ------------------------------------------------ process_compensation_claim
CompensationRequired ==
  {"Division", "RO Id.", "Registration No.", "RO Date", "RO Bill Date",
   "Chassis No.", "Model Group", "Claim Amount", "Request Status",
   "Claim Approved Amt.", "No. of Days"}

CompensationNumeric == {"Claim Amount", "Claim Approved Amt.", "No. of Days"}

\* Mutant of CompensationClean: .dropna() instead of .fillna(0), a record
\* with a cell that is not a number is dropped.
CompensationCleanDropna(rows, columns) ==
  LET kept == SelectSeq(rows,
                        LAMBDA r : \A c \in CompensationNumeric \cap columns :
                                     r[c][1] = "num")
  IN [i \in 1..Len(kept) |->
        [c \in DOMAIN kept[i] |->
           IF c \in CompensationNumeric /\ c \in columns
             THEN ToNumeric(kept[i][c]) ELSE kept[i][c]]]

\* pd.to_numeric(...).fillna(0) on the numeric columns the sheet has.
CompensationClean(rows, columns) ==
  [i \in 1..Len(rows) |->
     [c \in DOMAIN rows[i] |->
        IF c \in CompensationNumeric /\ c \in columns
          THEN ToNumeric(rows[i][c]) ELSE rows[i][c]]]

\* The columns of the compensation summary, given the sheet's columns.
CompensationColumns(columns) ==
  <<DivisionCol, <<"Total Claims">>>>
  \o (IF "Claim Amount" \in columns THEN <<<<"Total Claim Amount">>>> ELSE <<>>)
  \o (IF "Claim Approved Amt." \in columns
        THEN <<<<"Total Approved Amount">>>> ELSE <<>>)
  \o (IF "No. of Days" \in columns THEN <<<<"Avg No. of Days">>>> ELSE <<>>)

Column(data, c) == [i \in 1..Len(data) |-> data[i][c]]

\* summary_row of process_compensation_claim for one division
CompensationRow(div_data, division, columns) ==
  [c \in {CompensationColumns(columns)[j] :
            j \in 1..Len(CompensationColumns(columns))} |->
     CASE c = DivisionCol -> division
       [] c = <<"Total Claims">> -> Num(Len(div_data))
       [] c = <<"Total Claim Amount">> ->
            Num(SumSeq(Column(div_data, "Claim Amount")))
       [] c = <<"Total Approved Amount">> ->
            Num(SumSeq(Column(div_data, "Claim Approved Amt.")))
       [] c = <<"Avg No. of Days">> -> Mean(Column(div_data, "No. of Days"))]

\* Mutant of CompensationGrandTotal: the averages are summed like the other
\* columns.
CompensationGrandTotalSumsAverages(table) ==
  [c \in {table.columns[j] : j \in 1..Len(table.columns)} \cup {DivisionCol} |->
     CASE c = DivisionCol -> GrandTotal
       [] c = <<"Avg No. of Days">> -> FracSum(Column(table.rows, c))
       [] OTHER -> Num(ColSum(table, c))]

\* The Grand Total row of the compensation summary: the count and the
\* amounts are summed, the averages are averaged.
CompensationGrandTotal(table) ==
  [c \in {table.columns[j] : j \in 1..Len(table.columns)} \cup {DivisionCol} |->
     CASE c = DivisionCol -> GrandTotal
       [] c = <<"Avg No. of Days">> -> FracMean(Column(table.rows, c))
       [] OTHER -> Num(ColSum(table, c))]

CompensationFailed == [summary |-> None, source |-> None]

\* process_compensation_claim(): without the Division column the summary
\* is the empty pd.DataFrame(); with no valid row pd.DataFrame([]) has no
\* column and the summary is the lone row {'Division': 'Grand Total'}.
process_compensation_claim(file) ==
  IF ~file.exists \/ CompensationRequired \cap file.columns = {}
    THEN CompensationFailed
  ELSE LET df_filtered ==
             CompensationClean(
               IF "Division" \in file.columns
                 THEN CleanDivisionRows(file.rows) ELSE file.rows,
               file.columns)
       IN IF "Division" \notin file.columns
            THEN [summary |-> Some(EmptyFrame), source |-> Some(df_filtered)]
          ELSE LET divs == Divisions(df_filtered)
                   summary_df ==
                     [columns |-> IF divs = <<>> THEN <<>>
                                  ELSE CompensationColumns(file.columns),
                      rows |-> [i \in 1..Len(divs) |->
                                  CompensationRow(DivData(df_filtered, divs[i]),
                                                  divs[i], file.columns)]]
               IN [summary |->
                     Some([columns |-> IF divs = <<>> THEN <<DivisionCol>>
                                       ELSE summary_df.columns,
                           rows |-> Append(summary_df.rows,
                                           CompensationGrandTotal(summary_df))]),
                   source |-> Some(df_filtered)]

\* ------------------------------------------------------- process_pr_approval
PrApprovalColumns ==
  {"Division", "PA Request No.", "PA Date", "Request Type",
   "App. Claim Amt from M&M"}

\* Insertion of the type x into s, descending by count, ties in order of
\* first appearance.
RECURSIVE InsertByCount(_, _, _)
InsertByCount(x, s, count) ==
  IF s = <<>> THEN <<x>>
  ELSE IF count[x] > count[s[1]] THEN <<x>> \o s
  ELSE <<s[1]>> \o InsertByCount(x, Tail(s), count)

RECURSIVE SortByCount(_, _)
SortByCount(s, count) ==
  IF s = <<>> THEN <<>>
  ELSE InsertByCount(s[Len(s)],
                     SortByCount(SubSeq(s, 1, Len(s) - 1), count), count)

\* div_data['Request Type'].value_counts().to_dict(): the types of the
\* division (NaN dropped), most frequent first, kept when
\* str(req_type).strip() != ''.
RequestTypes(div_data) ==
  LET types == Unique(SelectSeq(Column(div_data, "Request Type"),
                                LAMBDA t : ~IsNaText(t)))
      count == [t \in {types[i] : i \in 1..Len(types)} |->
                  Len(SelectSeq(div_data, LAMBDA r : r["Request Type"] = t))]
  IN SelectSeq(SortByCount(types, count), LAMBDA t : Strip(t) # <<>>)

\* summary_row of process_pr_approval for one division, as the sequence of
\* its (column, cell) pairs in insertion order.
PrApprovalRow(div_data, division, columns) ==
  <<<<DivisionCol, division>>, <<<<"Total Requests">>, Num(Len(div_data))>>>>
  \o (IF "App. Claim Amt from M&M" \in columns
        THEN <<<<<<"Total Approved Amount">>,
                 Num(SumSeq(Column(div_data, "App. Claim Amt from M&M")))>>>>
        ELSE <<>>)
  \o (IF "Request Type" \in columns
        THEN LET types == RequestTypes(div_data)
             IN [j \in 1..Len(types) |->
                   <<<<"Count", types[j]>>,
                     Num(Len(SelectSeq(
                           div_data,
                           LAMBDA r : r["Request Type"] = types[j])))>>]
        ELSE <<>>)

\* The keys of the dicts in summary_data, in order of first appearance.
RECURSIVE DictColumns(_)
DictColumns(summary_data) ==
  IF summary_data = <<>> THEN <<>>
  ELSE Unique(DictColumns(SubSeq(summary_data, 1, Len(summary_data) - 1))
              \o [j \in 1..Len(summary_data[Len(summary_data)]) |->
                    summary_data[Len(summary_data)][j][1]])

\* pd.DataFrame(summary_data): a key a dict lacks gives a NaN cell.
DictFrame(summary_data) ==
  LET cols == DictColumns(summary_data)
  IN [columns |-> cols,
      rows |-> [i \in 1..Len(summary_data) |->
                  [c \in {cols[j] : j \in 1..Len(cols)} |->
                     IF \E j \in 1..Len(summary_data[i]) :
                          summary_data[i][j][1] = c
                       THEN summary_data[i]
                              [CHOOSE j \in 1..Len(summary_data[i]) :
                                 summary_data[i][j][1] = c][2]
                       ELSE NaNum]]]

\* Mutant of PrApprovalGrandTotal: Total Requests is the number of
\* division rows, not the sum of their counts.
PrApprovalGrandTotalCountsRows(table) ==
  [c \in {table.columns[j] : j \in 1..Len(table.columns)} \cup {DivisionCol} |->
     IF c = DivisionCol THEN GrandTotal
     ELSE IF c = <<"Total Requests">> THEN Num(Len(table.rows))
     ELSE Num(ColSum(table, c))]

\* The Grand Total row of the PR approval summary: every numeric column is
\* summed; the frame of an empty summary_data has no column.
PrApprovalGrandTotal(table) ==
  [c \in {table.columns[j] : j \in 1..Len(table.columns)} \cup {DivisionCol} |->
     IF c = DivisionCol THEN GrandTotal ELSE Num(ColSum(table, c))]

PrApprovalFailed == [summary |-> None, source |-> None]

\* process_pr_approval() on the first sheet of the warranty workbook.
process_pr_approval(file) ==
  IF ~file.exists \/ PrApprovalColumns \cap file.columns = {}
    THEN PrApprovalFailed
  ELSE IF "Division" \notin file.columns
    THEN [summary |-> Some(EmptyFrame), source |-> Some(file.rows)]
  ELSE LET cleaned == CleanDivisionRows(file.rows)
           df_summary_display ==
             [i \in 1..Len(cleaned) |->
                [c \in DOMAIN cleaned[i] |->
                   IF c = "App. Claim Amt from M&M" /\ c \in file.columns
                     THEN ToNumeric(cleaned[i][c]) ELSE cleaned[i][c]]]
           divs == Divisions(df_summary_display)
           summary_df ==
             DictFrame([i \in 1..Len(divs) |->
                          PrApprovalRow(DivData(df_summary_display, divs[i]),
                                        divs[i], file.columns)])
       IN [summary |->
             Some([columns |-> IF divs = <<>> THEN <<DivisionCol>>
                               ELSE summary_df.columns,
                   rows |-> Append(summary_df.rows,
                                   PrApprovalGrandTotal(summary_df))]),
           source |-> Some(file.rows)]

\* ------------------------------------------------- GET /api/warranty-data
\* What a handler answers: a status and, on success, a body.
Ok(body) == [status |-> 200, body |-> Some(body)]
Error(status) == [status |-> status, body |-> None]

\* DataFrame.to_dict('records'): one dict per row, keyed by the columns.
ToDictRecords(df) == df.rows

\* pd.isna(record[key]): the Division cell is text, every other cell of a
\* summary table is a number.
IsNa(key, value) ==
  IF key = DivisionCol THEN IsNaText(value) ELSE IsNaNum(value)

\* Mutant of ReplaceNa: only the first record of a list is cleaned.
ReplaceNaFirst(records) ==
  [i \in 1..Len(records) |->
     [key \in DOMAIN records[i] |->
        IF i = 1 /\ IsNa(key, records[i][key])
          THEN Num(0) ELSE records[i][key]]]

\* for record in records: for key in record:
\*   if pd.isna(record[key]): record[key] = 0
ReplaceNa(records) ==
  [i \in 1..Len(records) |->
     [key \in DOMAIN records[i] |->
        IF IsNa(key, records[i][key]) THEN Num(0) ELSE records[i][key]]]

\* The records of an optional table: [] when it is None.
Records(df) == IF IsNone(df) THEN <<>> ELSE ToDictRecords(Get(df))

\* Mutant of get_warranty_data: no `is not None` test before to_dict(), a
\* missing side table raises AttributeError.
get_warranty_dataUnguarded(data) ==
  IF IsNone(data.credit_df)
    THEN Ok([credit |-> <<>>, debit |-> <<>>, arbitration |-> <<>>,
             currentMonth |-> <<>>, compensation |-> <<>>,
             prApproval |-> <<>>])
  ELSE IF \/ IsNone(data.debit_df) \/ IsNone(data.arbitration_df)
          \/ IsNone(data.current_month_df) \/ IsNone(data.compensation_df)
          \/ IsNone(data.pr_approval_df)
    THEN Error(500)
  ELSE Ok([credit |-> ReplaceNa(ToDictRecords(Get(data.credit_df))),
           debit |-> ReplaceNa(ToDictRecords(Get(data.debit_df))),
           arbitration |-> ReplaceNa(ToDictRecords(Get(data.arbitration_df))),
           currentMonth |-> ReplaceNa(ToDictRecords(Get(data.current_month_df))),
           compensation |-> ReplaceNa(ToDictRecords(Get(data.compensation_df))),
           prApproval |-> ReplaceNa(ToDictRecords(Get(data.pr_approval_df)))])

\* get_warranty_data(): six empty lists when credit_df is None; a None debit
\* or arbitration table next to a credit table would raise AttributeError,
\* answered with 500.
get_warranty_data(data) ==
  IF IsNone(data.credit_df)
    THEN Ok([credit |-> <<>>, debit |-> <<>>, arbitration |-> <<>>,
             currentMonth |-> <<>>, compensation |-> <<>>,
             prApproval |-> <<>>])
  ELSE IF IsNone(data.debit_df) \/ IsNone(data.arbitration_df)
    THEN Error(500)
  ELSE Ok([credit |-> ReplaceNa(ToDictRecords(Get(data.credit_df))),
           debit |-> ReplaceNa(ToDictRecords(Get(data.debit_df))),
           arbitration |-> ReplaceNa(ToDictRecords(Get(data.arbitration_df))),
           currentMonth |-> ReplaceNa(Records(data.current_month_df)),
           compensation |-> ReplaceNa(Records(data.compensation_df)),
           prApproval |-> ReplaceNa(Records(data.pr_approval_df))])

\* ------------------------------------------------ POST /api/export-to-excel
All == <<"A", "l", "l">>

ExportTypes ==
  {"credit", "debit", "arbitration", "currentmonth", "compensation",
   "pr_approval"}

\* body.get(key, default)
BodyGet(field, default) == IF IsNone(field) THEN default ELSE Get(field)

\* selected_division != 'All' and selected_division != 'Grand Total'
Specific(selected_division) ==
  selected_division # All /\ selected_division # GrandTotal

\* df.empty
Empty(df) == df.rows = <<>> \/ df.columns = <<>>

\* ws.title = f"{selected_division} - ...": openpyxl raises ValueError when
\* the title holds one of \ * ? : / [ ]
TitleRaises(selected_division) ==
  \E i \in 1..Len(selected_division) :
    selected_division[i] \in {"\\", "*", "?", ":", "/", "[", "]"}

\* df_export: the rows of the division followed by the rows whose Division
\* is 'Grand Total', or the whole table.
FilterDivision(df, selected_division) ==
  IF Specific(selected_division)
    THEN [df EXCEPT !.rows =
            SelectSeq(df.rows, LAMBDA r : r[DivisionCol] = selected_division)
            \o SelectSeq(df.rows, LAMBDA r : r[DivisionCol] = GrandTotal)]
  ELSE df

\* reverse_mapping = {v: k for k, v in dealer_mapping.items()}
reverse_mapping ==
  [code \in {dealer_mapping[k] : k \in DOMAIN dealer_mapping} |->
     CHOOSE k \in DOMAIN dealer_mapping : dealer_mapping[k] = code]

\* is_empty_or_hyphen(value) of export_to_excel
is_empty_or_hyphen(value) ==
  IF IsNaText(value) THEN TRUE
  ELSE LET v == Strip(value)
       IN v = <<>> \/ v = <<"-">> \/ Upper(v) = <<"N", "A", "N">>

\* has_valid_arb_id(value) of export_to_excel
has_valid_arb_id(value) ==
  IF IsNaText(value) THEN FALSE
  ELSE LET v == Upper(Strip(value))
       IN StartsWith(v, <<"A", "R", "B">>) /\ v # <<"N", "A", "N">> /\ v # <<>>

Dec == <<"D", "e", "c">>
Jan == <<"J", "a", "n">>
Feb == <<"F", "e", "b">>
Mar == <<"M", "a", "r">>

month_order == <<Apr, May, Jun, Jul, Aug, Sep, Oct, Nov, Dec, Jan, Feb, Mar>>

\* month_order.index(x) if x in month_order else 999
MonthOrder(x) ==
  IF \E i \in 1..Len(month_order) : month_order[i] = x
    THEN (CHOOSE i \in 1..Len(month_order) : month_order[i] = x) - 1
  ELSE 999

\* df.sort_values('Month_Order'): ascending, records of equal order keep
\* their order.
RECURSIVE SortByMonthFrom(_, _)
SortByMonthFrom(rows, k) ==
  IF k > Len(month_order) THEN
    SelectSeq(rows, LAMBDA r : MonthOrder(MonthKey(r["Fiscal Month"])) = 999)
  ELSE SelectSeq(rows,
                 LAMBDA r : MonthOrder(MonthKey(r["Fiscal Month"])) = k - 1)
       \o SortByMonthFrom(rows, k + 1)

SortByMonth(rows) == SortByMonthFrom(rows, 1)

\* A frame of source records; kept is FALSE once the frame lost its columns.
Frame(rows) == [kept |-> TRUE, rows |-> rows]

\* detail_df[detail_df['Claim arbitration ID'].apply(is_empty_or_hyphen)]:
\* on a frame without rows apply() returns an empty Series that is not of
\* boolean dtype, so the frame is indexed by an empty list of column labels
\* and loses every column.
MaskEmptyOrHyphen(df) ==
  IF df.rows = <<>> THEN [kept |-> FALSE, rows |-> <<>>]
  ELSE [df EXCEPT !.rows =
          SelectSeq(df.rows,
                    LAMBDA r : is_empty_or_hyphen(r["Claim arbitration ID"]))]

\* detail_df[detail_df['Claim arbitration ID'].apply(has_valid_arb_id)]
MaskValidArbId(df) ==
  IF df.rows = <<>> THEN [kept |-> FALSE, rows |-> <<>>]
  ELSE [df EXCEPT !.rows =
          SelectSeq(df.rows,
                    LAMBDA r : has_valid_arb_id(r["Claim arbitration ID"]))]

\* required_columns / pending_columns, restricted to the columns the
\* records of the model carry.
DetailColumns(export_type) ==
  <<"Fiscal Month", "Dealer Location", "Claim arbitration ID">>
  \o (CASE export_type = "credit" -> <<"Credit Note Amount">>
        [] export_type = "debit" -> <<"Debit Note Amount">>
        [] export_type = "arbitration" ->
             <<"Credit Note Amount", "Debit Note Amount">>)

\* A sheet of records: the columns selected, 'Debit Note Amount' renamed,
\* the records sorted by month.
RecordSheet(rows, columns, debit_name) ==
  LET sorted == SortByMonth(rows)
      header == [j \in 1..Len(columns) |->
                   IF columns[j] = "Debit Note Amount"
                     THEN debit_name ELSE columns[j]]
  IN [columns |-> header,
      rows |-> [i \in 1..Len(sorted) |->
                  [c \in {header[j] : j \in 1..Len(header)} |->
                     sorted[i][IF c = debit_name
                                 THEN "Debit Note Amount" ELSE c]]]]

\* A worksheet that was created and never written.
BlankSheet == [columns |-> <<>>, rows |-> <<>>]

\* The workbook of an export: the summary sheet, and for the credit, debit
\* and arbitration exports of one division the 'Detailed Data' and
\* 'Pending Arb' sheets.
Workbook(summary, detail, pending) ==
  [summary |-> summary, detail |-> detail, pending |-> pending]

\* Mutant of ExportSummary: only a missing table is refused, an empty one
\* is exported.
ExportSummaryNoneOnly(summary_df, selected_division) ==
  IF IsNone(summary_df) THEN Error(500)
  ELSE IF Specific(selected_division) /\ TitleRaises(selected_division)
    THEN Error(500)
  ELSE Ok(Workbook(FilterDivision(Get(summary_df), selected_division),
                   None, None))

\* The body shared by export_current_month_warranty,
\* export_compensation_claim and export_pr_approval: the HTTPException(500)
\* of a missing table and the ValueError of the title both end as 500.
ExportSummary(summary_df, selected_division) ==
  IF IsNone(summary_df) THEN Error(500)
  ELSE IF Empty(Get(summary_df)) THEN Error(500)
  ELSE IF Specific(selected_division) /\ TitleRaises(selected_division)
    THEN Error(500)
  ELSE Ok(Workbook(FilterDivision(Get(summary_df), selected_division),
                   None, None))

export_current_month_warranty(data, selected_division) ==
  ExportSummary(data.current_month_df, selected_division)

export_compensation_claim(data, selected_division) ==
  ExportSummary(data.compensation_df, selected_division)

export_pr_approval(data, selected_division) ==
  ExportSummary(data.pr_approval_df, selected_division)

\* Sheets 2 and 3 of the credit, debit and arbitration exports of one
\* division: a frame that lost its columns raises KeyError('Fiscal Month'),
\* answered with 500.
ExportDetail(data, export_type, selected_division, df_export) ==
  IF \/ selected_division \notin DOMAIN reverse_mapping
     \/ IsNone(data.source_df)
    THEN Ok(Workbook(df_export, Some(BlankSheet), None))
  ELSE
    LET dealer_location == reverse_mapping[selected_division]
        source_df == Get(data.source_df)
        by_dealer ==
          SelectSeq(source_df,
                    LAMBDA r : r["Dealer Location"] = dealer_location)
        detail_df ==
          CASE export_type = "credit" ->
                 MaskEmptyOrHyphen(Frame(SelectSeq(
                   by_dealer, LAMBDA r : r["Credit Note Amount"] > 0)))
            [] export_type = "debit" ->
                 Frame(SelectSeq(by_dealer,
                                 LAMBDA r : r["Debit Note Amount"] > 0))
            [] export_type = "arbitration" -> MaskValidArbId(Frame(by_dealer))
        pending_df ==
          MaskEmptyOrHyphen(Frame(SelectSeq(
            by_dealer, LAMBDA r : r["Debit Note Amount"] > 0)))
        detail ==
          RecordSheet(detail_df.rows, DetailColumns(export_type),
                      IF export_type = "arbitration"
                        THEN "Arbitration Amount" ELSE "Debit Note Amount")
    IN IF ~detail_df.kept THEN Error(500)
       ELSE IF export_type # "arbitration"
         THEN Ok(Workbook(df_export, Some(detail), None))
       ELSE IF ~pending_df.kept THEN Error(500)
       ELSE Ok(Workbook(df_export, Some(detail),
                        Some(RecordSheet(pending_df.rows,
                                         DetailColumns("arbitration"),
                                         "Pending Arbitration Amount"))))

\* Mutant of export_to_excel: no `except HTTPException: raise`, the generic
\* handler turns the 400 of an invalid type into a 500.
export_to_excelNoReraise(data, body) ==
  LET selected_division == BodyGet(body.division, All)
      export_type == BodyGet(body.type, "credit")
      df == CASE export_type = "credit" -> data.credit_df
              [] export_type = "debit" -> data.debit_df
              [] export_type = "arbitration" -> data.arbitration_df
  IN IF export_type \notin ExportTypes THEN Error(500)
     ELSE IF export_type = "currentmonth"
       THEN export_current_month_warranty(data, selected_division)
     ELSE IF export_type = "compensation"
       THEN export_compensation_claim(data, selected_division)
     ELSE IF export_type = "pr_approval"
       THEN export_pr_approval(data, selected_division)
     ELSE IF IsNone(df) THEN Error(500)
     ELSE IF Empty(Get(df)) THEN Error(500)
     ELSE IF ~Specific(selected_division)
       THEN Ok(Workbook(Get(df), None, None))
     ELSE IF TitleRaises(selected_division) THEN Error(500)
     ELSE ExportDetail(data, export_type, selected_division,
                       FilterDivision(Get(df), selected_division))

\* export_to_excel(request): body is [division, type], each None when the
\* JSON body lacks the key.
export_to_excel(data, body) ==
  LET selected_division == BodyGet(body.division, All)
      export_type == BodyGet(body.type, "credit")
      df == CASE export_type = "credit" -> data.credit_df
              [] export_type = "debit" -> data.debit_df
              [] export_type = "arbitration" -> data.arbitration_df
  IN IF export_type \notin ExportTypes THEN Error(400)
     ELSE IF export_type = "currentmonth"
       THEN export_current_month_warranty(data, selected_division)
     ELSE IF export_type = "compensation"
       THEN export_compensation_claim(data, selected_division)
     ELSE IF export_type = "pr_approval"
       THEN export_pr_approval(data, selected_division)
     ELSE IF IsNone(df) THEN Error(500)
     ELSE IF Empty(Get(df)) THEN Error(500)
     ELSE IF ~Specific(selected_division)
       THEN Ok(Workbook(Get(df), None, None))
     ELSE IF TitleRaises(selected_division) THEN Error(500)
     ELSE ExportDetail(data, export_type, selected_division,
                       FilterDivision(Get(df), selected_division))

\* GET /dashboard answers with the page, GET / redirects to it.
dashboard == Ok("DASHBOARD_HTML")
root == [status |-> 302, body |-> Some("/dashboard")]

\* ------------------------------------------------------------------ inputs
\* The workbooks startup reads.  A sheet is [exists, columns, rows]; the PR
\* approval summarizer reads the first sheet of the warranty workbook.
Cell(v) == <<"num", v>>
TextCell == <<"text", 0>>
EmptyCell == <<"nan", 0>>

WRow(dealer, month, arb, credit, debit) ==
  ("Dealer Location" :> dealer) @@ ("Fiscal Month" :> month) @@
  ("Claim arbitration ID" :> arb) @@
  ("Credit Note Amount" :> credit) @@ ("Debit Note Amount" :> debit)

Blank == <<" ", " ">>

\* Rows of Sheet1 of 'Warranty Debit.xlsx'.
WarrantyRows ==
  { WRow(AMRAVATI, Apr, NaN, Cell(100), Cell(0)),
    WRow(AMRAVATI, Apr, NaN, Cell(50), Cell(0)),
    WRow(CHIKHALI, May, NaN, Cell(30), Cell(0)),
    WRow(AMT, <<" ", "A", "p", "r", "-", "2", "5">>, <<"-">>, Cell(0), Cell(40)),
    WRow(AMRAVATI, May, <<" ", "a", "r", "b", "-", "2", "2", "0", "1", " ">>,
         Cell(0), Cell(25)),
    WRow(CHIKHALI, May, <<"1", "2", "3">>, Cell(0), Cell(-10)),
    WRow(CHIKHALI, <<"D", "e", "c">>, <<"A", "R", "B", "7">>, Cell(5), Cell(5)),
    WRow(GrandTotal, Apr, NaN, Cell(10), Cell(20)),
    WRow(NaN, Apr, NaN, Cell(10), Cell(5)),
    WRow(Blank, Jun, <<"n", "a", "n">>, Cell(10), Cell(6)),
    WRow(AMRAVATI, Apr, <<>>, Cell(0), Cell(15)),
    WRow(CHIKHALI, Jun, <<"X", "A", "R", "B">>, EmptyCell, Cell(7)),
    WRow(CHIKHALI, Apr, <<"A", "R", "B", "7">>, TextCell, Cell(8)) }

CMRow(division, spares, labour) ==
  ("Division" :> division) @@ ("Pending Claims Spares" :> spares) @@
  ("Pending Claims Labour" :> labour)

\* Rows of 'Pending Warranty Claim Details.xlsx'.
CurrentMonthRows ==
  { CMRow(AMT, Cell(1), EmptyCell),
    CMRow(<<" ", "A", "M", "T">>, Cell(2), Cell(3)),
    CMRow(CHI, EmptyCell, Cell(1)),
    CMRow(Blank, Cell(1), Cell(1)),
    CMRow(NaN, Cell(1), EmptyCell),
    CMRow(GrandTotal, Cell(4), Cell(4)) }

CompRow(division, amount, approved, days) ==
  ("Division" :> division) @@ ("Claim Amount" :> amount) @@
  ("Claim Approved Amt." :> approved) @@ ("No. of Days" :> days)

\* Rows of 'Transit_Claims_Merged.xlsx'.
CompensationRows ==
  { CompRow(AMT, Cell(100), Cell(80), Cell(3)),
    CompRow(<<" ", "A", "M", "T">>, Cell(50), Cell(50), Cell(4)),
    CompRow(CHI, Cell(30), TextCell, Cell(10)),
    CompRow(Blank, Cell(5), Cell(5), Cell(1)),
    CompRow(NaN, Cell(6), Cell(6), EmptyCell),
    CompRow(GrandTotal, Cell(7), Cell(7), Cell(2)),
    CompRow(AMT, Cell(20), Cell(20), EmptyCell) }

PRRow(division, type, amount) ==
  ("Division" :> division) @@ ("Request Type" :> type) @@
  ("App. Claim Amt from M&M" :> amount)

\* Rows of the first sheet of 'Warranty Debit.xlsx'.
PrApprovalRows ==
  { PRRow(AMT, <<"P">>, Cell(100)),
    PRRow(<<" ", "A", "M", "T">>, <<"G">>, Cell(50)),
    PRRow(CHI, NaN, Cell(30)),
    PRRow(Blank, <<"P">>, Cell(5)),
    PRRow(NaN, <<"G">>, TextCell),
    PRRow(GrandTotal, <<"P">>, Cell(10)),
    PRRow(CHI, <<"G">>, TextCell) }

\* Rows of 'Transit_Claims_Merged.xlsx' for the averages: two divisions
\* with different numbers of claims.
AverageRows ==
  { CompRow(AMT, Cell(100), Cell(80), Cell(3)),
    CompRow(AMT, Cell(20), Cell(20), EmptyCell),
    CompRow(CHI, Cell(30), TextCell, Cell(10)) }

\* The sequences over S of length at most n.
SeqsUpTo(S, n) == UNION {[1..k -> S] : k \in 0..n}

Sheet(exists, columns, rows) ==
  [exists |-> exists, columns |-> columns, rows |-> rows]

DefaultWarranty ==
  Sheet(TRUE, WarrantyColumns, <<WRow(AMRAVATI, Apr, NaN, Cell(100), Cell(0))>>)
DefaultCurrentMonth ==
  Sheet(TRUE, CurrentMonthRequired, <<CMRow(AMT, Cell(1), EmptyCell)>>)
DefaultCompensation ==
  Sheet(TRUE, CompensationRequired,
        <<CompRow(AMT, Cell(100), Cell(80), Cell(3))>>)
DefaultPrApproval ==
  Sheet(TRUE, PrApprovalColumns, <<PRRow(AMT, <<"P">>, Cell(100))>>)

WarrantyColumnSets == {WarrantyColumns, WarrantyColumns \ {"Debit Note Amount"}}
CurrentMonthColumnSets ==
  {CurrentMonthRequired, CurrentMonthRequired \ {"Pending Claims Labour"}}
CompensationColumnSets ==
  {CompensationRequired, CompensationRequired \ {"Division"},
   CompensationRequired \ {"No. of Days"}, {}}
PrApprovalColumnSets == {PrApprovalColumns, PrApprovalColumns \ {"Division"}, {}}

Files(w, cm, comp, pr) ==
  [warranty |-> w, current_month |-> cm, compensation |-> comp,
   pr_approval |-> [pr EXCEPT !.exists = w.exists]]

\* The inputs of the model: each family varies one workbook over its rows,
\* the last one varies which files and columns exist.
WarrantyFamily(n) ==
  {Files([DefaultWarranty EXCEPT !.rows = rows], DefaultCurrentMonth,
         DefaultCompensation, DefaultPrApproval) :
     rows \in SeqsUpTo(WarrantyRows, n)}

SideFamilies ==
  {Files(DefaultWarranty, [DefaultCurrentMonth EXCEPT !.rows = rows],
         DefaultCompensation, DefaultPrApproval) :
     rows \in SeqsUpTo(CurrentMonthRows, MaxSideRows)}
  \cup
  {Files(DefaultWarranty, DefaultCurrentMonth,
         [DefaultCompensation EXCEPT !.rows = rows, !.columns = cols],
         DefaultPrApproval) :
     rows \in SeqsUpTo(CompensationRows, MaxSideRows),
     cols \in CompensationColumnSets}
  \cup
  {Files(DefaultWarranty, DefaultCurrentMonth,
         [DefaultCompensation EXCEPT !.rows = rows], DefaultPrApproval) :
     rows \in SeqsUpTo(AverageRows, MaxAverageRows)}
  \cup
  {Files(DefaultWarranty, DefaultCurrentMonth, DefaultCompensation,
         [DefaultPrApproval EXCEPT !.rows = rows, !.columns = cols]) :
     rows \in SeqsUpTo(PrApprovalRows, MaxSideRows),
     cols \in PrApprovalColumnSets}

OutcomeFamily ==
  {Files([DefaultWarranty EXCEPT !.exists = we, !.columns = wc],
         [DefaultCurrentMonth EXCEPT !.exists = ce, !.columns = cc],
         [DefaultCompensation EXCEPT !.exists = pe, !.columns = pc_],
         [DefaultPrApproval EXCEPT !.columns = rc]) :
     we \in BOOLEAN, wc \in WarrantyColumnSets,
     ce \in BOOLEAN, cc \in CurrentMonthColumnSets,
     pe \in BOOLEAN, pc_ \in CompensationColumnSets,
     rc \in PrApprovalColumnSets}

InputFiles == WarrantyFamily(MaxRows) \cup SideFamilies \cup OutcomeFamily

\* The inputs of the server: the same families, the warranty workbook with
\* fewer rows.
ServedFiles ==
  WarrantyFamily(MaxServedRows) \cup SideFamilies \cup OutcomeFamily

\* The divisions and the JSON bodies of the export requests: a key may be
\* absent, the type may be one the handler does not know.
ExportDivisions == {All, GrandTotal, AMT, CHI, Blank, <<"X">>, <<"?">>}

RequestBodies ==
  [division : {None} \cup {Some(d) : d \in ExportDivisions},
   type : {None} \cup {Some(t) : t \in ExportTypes \cup {"pdf", "Credit"}}]

\* ------------------------------------------------------------ state machine
\* files: the workbooks on disk; WARRANTY_DATA: the global dict; pc: the
\* statement startup is at, "serving" once the application runs; response:
\* the answer of the request being served, None between two requests.
VARIABLES files, WARRANTY_DATA, pc, response

vars == <<files, WARRANTY_DATA, pc, response>>

Init ==
  /\ files \in InputFiles
  /\ WARRANTY_DATA =
       [credit_df |-> None, debit_df |-> None, arbitration_df |-> None,
        source_df |-> None, current_month_df |-> None,
        current_month_source_df |-> None, compensation_df |-> None,
        compensation_source_df |-> None, pr_approval_df |-> None,
        pr_approval_source_df |-> None]
  /\ pc = "warranty"
  /\ response = None

\* WARRANTY_DATA['credit_df'], ..., WARRANTY_DATA['source_df'] =
\*   process_warranty_data()
StartupWarranty ==
  /\ pc = "warranty"
  /\ LET r == process_warranty_data(files.warranty)
     IN WARRANTY_DATA' =
          [WARRANTY_DATA EXCEPT !.credit_df = r.credit_df,
                                !.debit_df = r.debit_df,
                                !.arbitration_df = r.arbitration_df,
                                !.source_df = r.source_df]
  /\ pc' = "current_month"
  /\ UNCHANGED <<files, response>>

StartupCurrentMonth ==
  /\ pc = "current_month"
  /\ LET r == process_current_month_warranty(files.current_month)
     IN WARRANTY_DATA' =
          [WARRANTY_DATA EXCEPT !.current_month_df = r.summary,
                                !.current_month_source_df = r.source]
  /\ pc' = "compensation"
  /\ UNCHANGED <<files, response>>

StartupCompensation ==
  /\ pc = "compensation"
  /\ LET r == process_compensation_claim(files.compensation)
     IN WARRANTY_DATA' =
          [WARRANTY_DATA EXCEPT !.compensation_df = r.summary,
                                !.compensation_source_df = r.source]
  /\ pc' = "pr_approval"
  /\ UNCHANGED <<files, response>>

StartupPrApproval ==
  /\ pc = "pr_approval"
  /\ LET r == process_pr_approval(files.pr_approval)
     IN WARRANTY_DATA' =
          [WARRANTY_DATA EXCEPT !.pr_approval_df = r.summary,
                                !.pr_approval_source_df = r.source]
  /\ pc' = "serving"
  /\ UNCHANGED <<files, response>>

\* Startup alone, over all the inputs.
Next ==
  \/ StartupWarranty
  \/ StartupCurrentMonth
  \/ StartupCompensation
  \/ StartupPrApproval

Spec == Init /\ [][Next]_vars

\* The answer r of handler to a request with JSON body `body`.
Answer(handler, body, r) ==
  Some([handler |-> handler, request |-> body,
        status |-> r.status, body |-> r.body])

\* Mutant of GetWarrantyData: to_dict('records') returns views, so that
\* record[key] = 0 writes into the stored tables.
GetWarrantyDataInPlace ==
  /\ pc = "serving"
  /\ IsNone(response)
  /\ response' = Answer("get_warranty_data", None,
                        get_warranty_data(WARRANTY_DATA))
  /\ WARRANTY_DATA' =
       [k \in DOMAIN WARRANTY_DATA |->
          IF k \in {"credit_df", "debit_df", "arbitration_df",
                    "current_month_df", "compensation_df", "pr_approval_df"}
             /\ ~IsNone(WARRANTY_DATA[k])
            THEN Some([Get(WARRANTY_DATA[k]) EXCEPT
                         !.rows = ReplaceNa(Get(WARRANTY_DATA[k]).rows)])
          ELSE WARRANTY_DATA[k]]
  /\ UNCHANGED <<files, pc>>

\* GET /api/warranty-data: the records are new dicts, the handler writes to
\* them and to no stored table.
GetWarrantyData ==
  /\ pc = "serving"
  /\ IsNone(response)
  /\ response' = Answer("get_warranty_data", None,
                        get_warranty_data(WARRANTY_DATA))
  /\ UNCHANGED <<files, WARRANTY_DATA, pc>>

\* POST /api/export-to-excel: every frame the handler writes to is a
\* .copy() or the result of a selection.
ExportToExcel ==
  /\ pc = "serving"
  /\ IsNone(response)
  /\ \E body \in RequestBodies :
       response' = Answer("export_to_excel", Some(body),
                          export_to_excel(WARRANTY_DATA, body))
  /\ UNCHANGED <<files, WARRANTY_DATA, pc>>

\* GET /dashboard
Dashboard ==
  /\ pc = "serving"
  /\ IsNone(response)
  /\ response' = Answer("dashboard", None, dashboard)
  /\ UNCHANGED <<files, WARRANTY_DATA, pc>>

\* GET /
Root ==
  /\ pc = "serving"
  /\ IsNone(response)
  /\ response' = Answer("root", None, root)
  /\ UNCHANGED <<files, WARRANTY_DATA, pc>>

\* The answer is sent; the handlers run to completion one at a time on the
\* event loop.
SendResponse ==
  /\ ~IsNone(response)
  /\ response' = None
  /\ UNCHANGED <<files, WARRANTY_DATA, pc>>

ServerInit ==
  /\ files \in ServedFiles
  /\ WARRANTY_DATA =
       [credit_df |-> None, debit_df |-> None, arbitration_df |-> None,
        source_df |-> None, current_month_df |-> None,
        current_month_source_df |-> None, compensation_df |-> None,
        compensation_source_df |-> None, pr_approval_df |-> None,
        pr_approval_source_df |-> None]
  /\ pc = "warranty"
  /\ response = None

\* Startup followed by the requests.
ServerNext ==
  \/ StartupWarranty
  \/ StartupCurrentMonth
  \/ StartupCompensation
  \/ StartupPrApproval
  \/ GetWarrantyData
  \/ ExportToExcel
  \/ Dashboard
  \/ Root
  \/ SendResponse

ServerSpec == ServerInit /\ [][ServerNext]_vars

\* ---------------------------------------------------------------- properties
\* The rows of Sheet1 as the workbook holds them.
raw == files.warranty.rows

\* process_warranty_data has run and returned its tables.
WarrantyLoaded == pc # "warranty" /\ ~IsNone(WARRANTY_DATA.credit_df)

credit == Get(WARRANTY_DATA.credit_df)
debit == Get(WARRANTY_DATA.debit_df)
arbitration == Get(WARRANTY_DATA.arbitration_df)

\* The rows of a table before its last row, and its last row.
DivisionRows(table) == SubSeq(table.rows, 1, Len(table.rows) - 1)
LastRow(table) == table.rows[Len(table.rows)]

\* The sum of an amount column over the raw records of division code d and
\* month key m that satisfy Counts.
RawAmount(d, m, amount, Counts(_)) ==
  SumSeq([i \in 1..Len(raw) |->
            IF /\ DealerCode(raw[i]["Dealer Location"]) = d
               /\ MonthKey(raw[i]["Fiscal Month"]) = m
               /\ Counts(raw[i])
              THEN ToNumeric(raw[i][amount]) ELSE 0])

Always(r) == TRUE

\* Every cell (d, m) of table is the sum of amount over the raw records of
\* division d and month m.
CellsAreSums(table, label, amount) ==
  \A i \in 1..Len(DivisionRows(table)) : \A k \in 1..Len(months) :
    table.rows[i][<<label, months[k]>>] =
      Num(RawAmount(table.rows[i][DivisionCol], months[k], amount, Always))

\* C1: in the credit and in the debit table every cell (division d, month m)
\* is the sum of the Credit (Debit) Note Amount over the raw records whose
\* dealer code is d and whose month key is m, 0 when there is none.
C1_CellIsSumOfRecords ==
  WarrantyLoaded =>
    /\ CellsAreSums(credit, "Credit Note", "Credit Note Amount")
    /\ CellsAreSums(debit, "Debit Note", "Debit Note Amount")

\* The example of the specification: its three records and its table.
C1_Witness ==
  /\ WarrantyLoaded
  /\ raw = <<WRow(AMRAVATI, Apr, NaN, Cell(100), Cell(0)),
             WRow(AMRAVATI, Apr, NaN, Cell(50), Cell(0)),
             WRow(CHIKHALI, May, NaN, Cell(30), Cell(0))>>
  /\ Len(credit.rows) = 3
  /\ credit.rows[1][DivisionCol] = AMT
  /\ credit.rows[1][<<"Credit Note", Apr>>] = Num(150)
  /\ credit.rows[1][<<"Credit Note", May>>] = Num(0)
  /\ credit.rows[1][<<"Total Credit">>] = Num(150)
  /\ credit.rows[2][DivisionCol] = CHI
  /\ credit.rows[2][<<"Credit Note", Apr>>] = Num(0)
  /\ credit.rows[2][<<"Credit Note", May>>] = Num(30)
  /\ credit.rows[2][<<"Total Credit">>] = Num(30)
  /\ credit.rows[3][DivisionCol] = GrandTotal
  /\ credit.rows[3][<<"Credit Note", Apr>>] = Num(150)
  /\ credit.rows[3][<<"Credit Note", May>>] = Num(30)
  /\ credit.rows[3][<<"Total Credit">>] = Num(180)

\* The value of a numeric cell, a missing cell counting for nothing.
CellValue(c) == IF IsNaNum(c) THEN 0 ELSE Val(c)

\* The last row of table holds, in every numeric column, the sum of the
\* column over the rows before it.
LastRowIsColumnSum(table) ==
  \A j \in 2..Len(table.columns) :
    LastRow(table)[table.columns[j]] =
      Num(SumSeq([i \in 1..Len(DivisionRows(table)) |->
                    CellValue(table.rows[i][table.columns[j]])]))

\* C2: in the credit, debit and arbitration tables every numeric column of
\* the Grand Total row (the monthly columns, Total Credit / Total Debit,
\* Pending Claim Arbitration) is the sum of the column over the division
\* rows of the table.
C2_GrandTotalIsColumnSum ==
  WarrantyLoaded =>
    /\ LastRowIsColumnSum(credit)
    /\ LastRowIsColumnSum(debit)
    /\ LastRowIsColumnSum(arbitration)

C2_Witness ==
  /\ WarrantyLoaded
  /\ Len(credit.rows) = 3
  /\ credit.rows[1][<<"Total Credit">>] # Num(0)
  /\ credit.rows[2][<<"Total Credit">>] # Num(0)
  /\ debit.rows[1][<<"Total Debit">>] # Num(0)
  /\ debit.rows[2][<<"Total Debit">>] # Num(0)
  /\ arbitration.rows[1][<<"Pending Claim Arbitration">>] # Num(0)
  /\ arbitration.rows[2][<<"Pending Claim Arbitration">>] # Num(0)
  /\ LastRow(arbitration)[<<"Pending Claim Arbitration">>] # Num(0)

\* The total column of every row of table is the sum of its monthly cells.
TotalIsRowSum(table, label, total) ==
  \A i \in 1..Len(table.rows) :
    table.rows[i][total] =
      Num(SumSeq([k \in 1..Len(months) |->
                    Val(table.rows[i][<<label, months[k]>>])]))

\* C3: in the credit and debit tables the Total column of every row, the
\* Grand Total row included, is the sum of the row's monthly columns.
C3_TotalIsSumOfMonths ==
  WarrantyLoaded =>
    /\ TotalIsRowSum(credit, "Credit Note", <<"Total Credit">>)
    /\ TotalIsRowSum(debit, "Debit Note", <<"Total Debit">>)

C3_Witness ==
  /\ WarrantyLoaded
  /\ \E i \in 1..Len(DivisionRows(credit)) :
       /\ credit.rows[i][<<"Credit Note", Apr>>] # Num(0)
       /\ debit.rows[i][<<"Debit Note", Apr>>] # Num(0)
       /\ debit.rows[i][<<"Debit Note", May>>] # Num(0)
       /\ debit.rows[i][<<"Total Debit">>] # debit.rows[i][<<"Debit Note", Apr>>]
  /\ LastRow(debit)[<<"Total Debit">>] # LastRow(debit)[<<"Debit Note", Apr>>]

\* The sum of the monthly arbitration cells of a row.
ArbitrationSum(row) ==
  SumSeq([k \in 1..Len(months) |->
            Val(row[<<"Claim Arbitration", months[k]>>])])

\* C4: for every division d, Pending Claim Arbitration[d] is Total Debit[d],
\* of the division row of d in the debit table, minus the sum of the monthly
\* Claim Arbitration cells of d; a negative result is kept.
C4_PendingIsResidual ==
  WarrantyLoaded =>
    \A i \in 1..Len(DivisionRows(arbitration)) :
      arbitration.rows[i][<<"Pending Claim Arbitration">>] =
        Num(Val(debit.rows[i][<<"Total Debit">>])
            - ArbitrationSum(arbitration.rows[i]))

\* The claim's test on the raw identifier: trimmed and uppercased it starts
\* with 'ARB'.
IdStartsWithARB(r) ==
  /\ ~IsNaText(r["Claim arbitration ID"])
  /\ StartsWith(Upper(Strip(r["Claim arbitration ID"])), <<"A", "R", "B">>)

\* C5: a record's Debit Note Amount is in its division's Claim Arbitration
\* cell of its month if and only if its arbitration ID, trimmed and
\* uppercased, starts with 'ARB': every cell is the sum of the debit
\* amounts of exactly those records.
C5_ArbitrationCountsARBOnly ==
  WarrantyLoaded =>
    \A i \in 1..Len(DivisionRows(arbitration)) : \A k \in 1..Len(months) :
      arbitration.rows[i][<<"Claim Arbitration", months[k]>>] =
        Num(RawAmount(arbitration.rows[i][DivisionCol], months[k],
                      "Debit Note Amount", IdStartsWithARB))

\* 'arb-2201' with blanks around it counts, '-' and 'nan' do not.
C5_Witness ==
  /\ WarrantyLoaded
  /\ \E i, j \in 1..Len(raw) :
       /\ raw[i]["Claim arbitration ID"] =
            <<" ", "a", "r", "b", "-", "2", "2", "0", "1", " ">>
       /\ raw[j]["Claim arbitration ID"] \in {<<"-">>, <<"n", "a", "n">>}
       /\ MonthKey(raw[j]["Fiscal Month"]) \in {Apr, Jun}
       /\ ToNumeric(raw[j]["Debit Note Amount"]) # 0
  /\ \E i \in 1..Len(DivisionRows(arbitration)) :
       arbitration.rows[i][<<"Claim Arbitration", May>>] = Num(25)
  /\ LastRow(arbitration)[<<"Claim Arbitration", Apr>>] = Num(0)
  /\ LastRow(arbitration)[<<"Claim Arbitration", Jun>>] = Num(0)

\* The six summary tables of WARRANTY_DATA.
SummaryKeys ==
  {"credit_df", "debit_df", "arbitration_df", "current_month_df",
   "compensation_df", "pr_approval_df"}

\* The summary tables that are not None.
LoadedTables ==
  {Get(WARRANTY_DATA[k]) : k \in {j \in SummaryKeys : ~IsNone(WARRANTY_DATA[j])}}

\* C6: in every summary table the division codes of the rows before the
\* Grand Total row are in strictly ascending lexical order, hence pairwise
\* distinct: two dealer values with the same code share one row.
C6_DivisionsSortedDistinct ==
  \A table \in LoadedTables :
    \A i, j \in 1..Len(DivisionRows(table)) :
      i < j => StrLess(table.rows[i][DivisionCol], table.rows[j][DivisionCol])

\* 'AMRAVATI' and a raw 'AMT' share the row AMT, before CHI.
C6_Witness ==
  /\ pc = "serving"
  /\ WarrantyLoaded
  /\ \E i, j, k \in 1..Len(raw) :
       /\ i < j
       /\ raw[i]["Dealer Location"] = CHIKHALI
       /\ raw[j]["Dealer Location"] = AMRAVATI
       /\ raw[k]["Dealer Location"] = AMT
  /\ Len(credit.rows) = 3
  /\ credit.rows[1][DivisionCol] = AMT
  /\ credit.rows[2][DivisionCol] = CHI

\* A division code that is missing, empty, 'nan' or only blanks.
BlankCode(d) == IsNaText(d) \/ Strip(d) = <<>> \/ d = <<"n", "a", "n">>

\* C7: no summary table has a division row whose code is empty, 'nan' or
\* only blanks, and a readable warranty sheet with a blank dealer is still
\* summarised into tables.
C7_BlankDivisionsDropped ==
  /\ \A table \in LoadedTables :
       \A i \in 1..Len(DivisionRows(table)) :
         ~BlankCode(table.rows[i][DivisionCol])
  /\ (/\ pc # "warranty"
      /\ files.warranty.exists
      /\ WarrantyColumns \subseteq files.warranty.columns)
     => ~IsNone(WARRANTY_DATA.credit_df)

\* C8: after startup every summary table that is not None has exactly one
\* row whose Division is 'Grand Total', and it is the last row.
C8_OneGrandTotalRowLast ==
  pc = "serving" =>
    \A table \in LoadedTables :
      /\ Len(table.rows) >= 1
      /\ LastRow(table)[DivisionCol] = GrandTotal
      /\ \A i \in 1..Len(DivisionRows(table)) :
           table.rows[i][DivisionCol] # GrandTotal

\* The sum of an amount column over the raw records that satisfy Counts and
\* whose month key is a month of the pivot.
RawPivotTotal(amount, Counts(_)) ==
  SumSeq([i \in 1..Len(raw) |->
            IF /\ \E k \in 1..Len(months) :
                    MonthKey(raw[i]["Fiscal Month"]) = months[k]
               /\ Counts(raw[i])
              THEN ToNumeric(raw[i][amount]) ELSE 0])

\* The raw records satisfying Counts whose month is in the pivot have
\* exactly one division row, and the Grand Total row's totals are the sums
\* of their amounts.
RecordsCountedOnce(Counts(_)) ==
  /\ \A i \in 1..Len(raw) :
       (Counts(raw[i]) /\ \E k \in 1..Len(months) :
                            MonthKey(raw[i]["Fiscal Month"]) = months[k])
       => Cardinality({j \in 1..Len(DivisionRows(credit)) :
                         credit.rows[j][DivisionCol] =
                           DealerCode(raw[i]["Dealer Location"])}) = 1
  /\ LastRow(credit)[<<"Total Credit">>] =
       Num(RawPivotTotal("Credit Note Amount", Counts))
  /\ LastRow(debit)[<<"Total Debit">>] =
       Num(RawPivotTotal("Debit Note Amount", Counts))

\* C9 as claimed: every raw record whose month key is a month of the pivot
\* is counted exactly once, so the Grand Total row's Total Credit (Total
\* Debit) is the sum of the amounts of those records.
C9_EveryRecordCountedOnce == WarrantyLoaded => RecordsCountedOnce(Always)

HasDealer(r) == ~IsNaText(r["Dealer Location"])

\* C9 amended: every raw record whose month key is a month of the pivot and
\* whose Dealer Location is not missing is counted exactly once, so the
\* Grand Total row's totals are the sums of the amounts of those records.
C9_RecordsWithDealerCountedOnce == WarrantyLoaded => RecordsCountedOnce(HasDealer)

C9_Witness ==
  /\ WarrantyLoaded
  /\ Len(raw) = 3
  /\ Len(credit.rows) = 3
  /\ \E i \in 1..Len(raw) : MonthKey(raw[i]["Fiscal Month"]) = <<"D", "e", "c">>
  /\ LastRow(credit)[<<"Total Credit">>] # Num(0)
  /\ LastRow(debit)[<<"Total Debit">>] # Num(0)
  /\ LastRow(credit)[<<"Total Credit">>] #
       Num(SumSeq([i \in 1..Len(raw) |-> ToNumeric(raw[i]["Credit Note Amount"])]))

WarrantyLacksColumn ==
  files.warranty.exists /\ ~(WarrantyColumns \subseteq files.warranty.columns)
CurrentMonthLacksColumn ==
  /\ files.current_month.exists
  /\ ~(CurrentMonthRequired \subseteq files.current_month.columns)

\* C11: when a loaded workbook lacks a column its summarizer requires, the
\* summarizer returns no summary for the dataset and still returns the loaded
\* raw table as the dataset's source table.
C11_MissingColumnKeepsRawTable ==
  /\ (pc # "warranty" /\ WarrantyLacksColumn) =>
       /\ IsNone(WARRANTY_DATA.credit_df)
       /\ IsNone(WARRANTY_DATA.debit_df)
       /\ IsNone(WARRANTY_DATA.arbitration_df)
       /\ ~IsNone(WARRANTY_DATA.source_df)
  /\ (pc \notin {"warranty", "current_month"} /\ CurrentMonthLacksColumn) =>
       /\ IsNone(WARRANTY_DATA.current_month_df)
       /\ ~IsNone(WARRANTY_DATA.current_month_source_df)

\* ----------------------------------------------------------------- requests
\* The answer of the request being served.
answer == Get(response)

Answered(handler) == ~IsNone(response) /\ answer.handler = handler

\* The JSON object GET /api/warranty-data answered with.
data == Get(answer.body)

\* The summary entries of WARRANTY_DATA and their keys in the response.
Datasets ==
  { <<"credit_df", "credit">>, <<"debit_df", "debit">>,
    <<"arbitration_df", "arbitration">>,
    <<"current_month_df", "currentMonth">>,
    <<"compensation_df", "compensation">>,
    <<"pr_approval_df", "prApproval">> }

\* C12: when the source file of a dataset is missing, its process_* function
\* returns None for the summary and for the raw table, startup goes on, and
\* GET /api/warranty-data answers 200 with an empty list for the dataset.
C12_MissingFileGivesEmptyList ==
  /\ (pc # "warranty" /\ ~files.warranty.exists) =>
       /\ IsNone(WARRANTY_DATA.credit_df)
       /\ IsNone(WARRANTY_DATA.debit_df)
       /\ IsNone(WARRANTY_DATA.arbitration_df)
       /\ IsNone(WARRANTY_DATA.source_df)
  /\ (pc \notin {"warranty", "current_month"} /\ ~files.current_month.exists) =>
       /\ IsNone(WARRANTY_DATA.current_month_df)
       /\ IsNone(WARRANTY_DATA.current_month_source_df)
  /\ (pc \in {"pr_approval", "serving"} /\ ~files.compensation.exists) =>
       /\ IsNone(WARRANTY_DATA.compensation_df)
       /\ IsNone(WARRANTY_DATA.compensation_source_df)
  /\ (pc = "serving" /\ ~files.pr_approval.exists) =>
       /\ IsNone(WARRANTY_DATA.pr_approval_df)
       /\ IsNone(WARRANTY_DATA.pr_approval_source_df)
  /\ Answered("get_warranty_data") =>
       /\ answer.status = 200
       /\ ~files.warranty.exists =>
            data.credit = <<>> /\ data.debit = <<>> /\ data.arbitration = <<>>
       /\ ~files.current_month.exists => data.currentMonth = <<>>
       /\ ~files.compensation.exists => data.compensation = <<>>
       /\ ~files.pr_approval.exists => data.prApproval = <<>>

\* Startup completed without the current-month and compensation workbooks
\* and the request was answered: their lists are empty, the others are not.
C12_Witness ==
  /\ pc = "serving"
  /\ Answered("get_warranty_data")
  /\ files.warranty.exists
  /\ ~files.current_month.exists
  /\ ~files.compensation.exists
  /\ answer.status = 200
  /\ data.currentMonth = <<>>
  /\ data.compensation = <<>>
  /\ data.credit # <<>>
  /\ data.prApproval # <<>>

\* C13: GET /api/warranty-data returns the summary rows of every dataset
\* that loaded and an empty list for every dataset that failed, whatever the
\* other datasets did.
C13_FailedDatasetHidesNoOther ==
  Answered("get_warranty_data") =>
    /\ answer.status = 200
    /\ \A ds \in Datasets :
         IF IsNone(WARRANTY_DATA[ds[1]]) THEN data[ds[2]] = <<>>
         ELSE /\ Len(data[ds[2]]) = Len(Get(WARRANTY_DATA[ds[1]]).rows)
              /\ \A i \in 1..Len(data[ds[2]]) :
                   data[ds[2]][i][DivisionCol] =
                     Get(WARRANTY_DATA[ds[1]]).rows[i][DivisionCol]

\* C14: no cell of a GET /api/warranty-data response is null or NaN: a
\* missing cell of a stored table is 0 in the response, every other cell has
\* its stored value.
C14_NoNullCellInResponse ==
  (Answered("get_warranty_data") /\ ~IsNone(WARRANTY_DATA.credit_df)) =>
    \A ds \in Datasets :
      ~IsNone(WARRANTY_DATA[ds[1]]) =>
        LET stored == Get(WARRANTY_DATA[ds[1]]).rows
            sent == data[ds[2]]
        IN /\ Len(sent) = Len(stored)
           /\ \A i \in 1..Len(sent) :
                /\ DOMAIN sent[i] = DOMAIN stored[i]
                /\ sent[i][DivisionCol] # NaN
                /\ sent[i][DivisionCol] = stored[i][DivisionCol]
                /\ \A key \in DOMAIN sent[i] \ {DivisionCol} :
                     /\ sent[i][key] # NaNum
                     /\ sent[i][key] = IF stored[i][key] = NaNum
                                         THEN Num(0) ELSE stored[i][key]

\* A stored table has a missing cell in a row that is not its first, and the
\* response holds 0 in its place.
C14_Witness ==
  /\ Answered("get_warranty_data")
  /\ ~IsNone(WARRANTY_DATA.pr_approval_df)
  /\ \E i \in 2..Len(Get(WARRANTY_DATA.pr_approval_df).rows) :
       \E key \in DOMAIN Get(WARRANTY_DATA.pr_approval_df).rows[i] \ {DivisionCol} :
         /\ Get(WARRANTY_DATA.pr_approval_df).rows[i][key] = NaNum
         /\ data.prApproval[i][key] = Num(0)

\* The division and the type of the export request being answered, with
\* the defaults of an absent key, and the stored table of a type.
requested_division == BodyGet(Get(answer.request).division, All)
requested_type == BodyGet(Get(answer.request).type, "credit")

TableKey(type) ==
  CASE type = "credit" -> "credit_df"
    [] type = "debit" -> "debit_df"
    [] type = "arbitration" -> "arbitration_df"
    [] type = "currentmonth" -> "current_month_df"
    [] type = "compensation" -> "compensation_df"
    [] type = "pr_approval" -> "pr_approval_df"

\* An export of one of the six types whose summary table is there.
ExportOfTable ==
  /\ Answered("export_to_excel")
  /\ requested_type \in ExportTypes
  /\ ~IsNone(WARRANTY_DATA[TableKey(requested_type)])
  /\ Get(WARRANTY_DATA[TableKey(requested_type)]).rows # <<>>

requested_table == Get(WARRANTY_DATA[TableKey(requested_type)])

\* The summary sheet of the workbook the export answered with.
summary_sheet == Get(answer.body).summary

\* C15: the summary sheet of an export holds every row of the stored table,
\* in order, when the division is 'All', absent or 'Grand Total'; for a
\* division d it holds the rows whose Division is d followed by the Grand
\* Total row, which is the Grand Total row alone, without an error, when d
\* is not in the table.
C15_SummarySheetRows ==
  ExportOfTable =>
    IF requested_division \in {All, GrandTotal}
      THEN answer.status = 200 => summary_sheet.rows = requested_table.rows
    ELSE
      LET of_d == SelectSeq(requested_table.rows,
                            LAMBDA r : r[DivisionCol] = requested_division)
      IN /\ answer.status = 200 =>
              summary_sheet.rows = of_d \o <<LastRow(requested_table)>>
         /\ of_d = <<>> =>
              /\ answer.status = 200
              /\ summary_sheet.rows = <<LastRow(requested_table)>>

\* WARRANTY_DATA as startup leaves it, computed from the workbooks.
StartupData ==
  LET w == process_warranty_data(files.warranty)
      c == process_current_month_warranty(files.current_month)
      p == process_compensation_claim(files.compensation)
      r == process_pr_approval(files.pr_approval)
  IN [credit_df |-> w.credit_df, debit_df |-> w.debit_df,
      arbitration_df |-> w.arbitration_df, source_df |-> w.source_df,
      current_month_df |-> c.summary, current_month_source_df |-> c.source,
      compensation_df |-> p.summary, compensation_source_df |-> p.source,
      pr_approval_df |-> r.summary, pr_approval_source_df |-> r.source]

\* C16: after startup no request changes the stored data: whatever requests
\* were served, the ten entries of WARRANTY_DATA are the ones startup left,
\* and every GET /api/warranty-data gets the answer computed from them.
C16_RequestsKeepStoredData ==
  pc = "serving" =>
    /\ WARRANTY_DATA = StartupData
    /\ Answered("get_warranty_data") =>
         /\ answer.status = get_warranty_data(StartupData).status
         /\ answer.body = get_warranty_data(StartupData).body

\* A GET /api/warranty-data answered 0 for a missing Pending Claim
\* Arbitration cell that the stored arbitration table still holds as NaN.
C16_Witness ==
  /\ Answered("get_warranty_data")
  /\ WarrantyLoaded
  /\ \E i \in 1..Len(arbitration.rows) :
       /\ arbitration.rows[i][<<"Pending Claim Arbitration">>] = NaNum
       /\ data.arbitration[i][<<"Pending Claim Arbitration">>] = Num(0)

\* --------------------------------------------------------- months and codes
\* No raw record has month key m.
EmptyMonth(m) ==
  \A i \in 1..Len(raw) : Prefix(Strip(AsTypeStr(raw[i]["Fiscal Month"])), 3) # m

\* The table has the column, and it holds 0 in every row.
ZeroColumn(table, column) ==
  /\ \E j \in 1..Len(table.columns) : table.columns[j] = column
  /\ \A i \in 1..Len(table.rows) : table.rows[i][column] = Num(0)

\* C17: a month of the pivot without any raw record still has its column in
\* the credit, debit and arbitration tables, 0 in every division row and in
\* the Grand Total row, and process_warranty_data does not fail for it.
C17_EmptyMonthColumnIsZero ==
  /\ WarrantyLoaded =>
       \A k \in 1..Len(months) :
         EmptyMonth(months[k]) =>
           /\ ZeroColumn(credit, <<"Credit Note", months[k]>>)
           /\ ZeroColumn(debit, <<"Debit Note", months[k]>>)
           /\ ZeroColumn(arbitration, <<"Claim Arbitration", months[k]>>)
  /\ ( /\ pc # "warranty"
       /\ files.warranty.exists
       /\ WarrantyColumns \subseteq files.warranty.columns
       /\ \A i \in 1..Len(raw) : raw[i]["Dealer Location"] # NaN )
     => WarrantyLoaded

\* April has no record, May has an arbitration debit of one division and a
\* plain debit of another.
C17_Witness ==
  /\ WarrantyLoaded
  /\ EmptyMonth(Apr)
  /\ Len(arbitration.rows) = 3
  /\ arbitration.rows[1][<<"Claim Arbitration", May>>] = Num(25)
  /\ debit.rows[2][<<"Debit Note", May>>] = Num(-10)
  /\ ZeroColumn(arbitration, <<"Claim Arbitration", Apr>>)
  /\ ZeroColumn(debit, <<"Debit Note", Apr>>)
  /\ ZeroColumn(credit, <<"Credit Note", Apr>>)

\* The number of division rows of table whose Division is code.
RowsOfCode(table, code) ==
  Len(SelectSeq(DivisionRows(table), LAMBDA r : r[DivisionCol] = code))

\* C18: the division code of a raw record is the code of the fixed table
\* when its Dealer Location is one of the ten mapped names and the Dealer
\* Location itself otherwise; an unmapped dealer raises no error and has its
\* own division row in the credit, debit and arbitration tables.
C18_DivisionCodeOfRecord ==
  /\ ( /\ pc # "warranty"
       /\ files.warranty.exists
       /\ WarrantyColumns \subseteq files.warranty.columns
       /\ \A i \in 1..Len(raw) : raw[i]["Dealer Location"] # NaN )
     => ~IsNone(WARRANTY_DATA.source_df)
  /\ WarrantyLoaded =>
       \A i \in 1..Len(raw) :
         LET loc == raw[i]["Dealer Location"]
             code == IF loc \in DOMAIN dealer_mapping
                       THEN dealer_mapping[loc] ELSE loc
         IN loc # NaN =>
              /\ Get(WARRANTY_DATA.source_df)[i]["Dealer_Code"] = code
              /\ RowsOfCode(credit, code) = 1
              /\ RowsOfCode(debit, code) = 1
              /\ RowsOfCode(arbitration, code) = 1

\* A mapped dealer and two unmapped ones, the blank one and the one that is
\* already a code: three division rows.
C18_Witness ==
  /\ WarrantyLoaded
  /\ \E i \in 1..Len(raw) : raw[i]["Dealer Location"] = CHIKHALI
  /\ \E i \in 1..Len(raw) : raw[i]["Dealer Location"] = Blank
  /\ \E i \in 1..Len(raw) : raw[i]["Dealer Location"] = AMT
  /\ Len(credit.rows) = 4
  /\ credit.rows[1][DivisionCol] = Blank
  /\ credit.rows[2][DivisionCol] = AMT
  /\ credit.rows[3][DivisionCol] = CHI
  /\ arbitration.rows[1][DivisionCol] = Blank
  /\ debit.rows[2][DivisionCol] = AMT

\* The first three characters of the trimmed Fiscal Month of raw record i,
\* and whether the pivot has that month.
KeyOf(i) == Prefix(Strip(AsTypeStr(raw[i]["Fiscal Month"])), 3)
InPivot(i) == \E k \in 1..Len(months) : months[k] = KeyOf(i)

\* The sum of an amount over the raw records of division code d whose month
\* key is in the pivot and that satisfy Counts.
PivotAmount(d, amount, Counts(_)) ==
  SumSeq([i \in 1..Len(raw) |->
            IF /\ DealerCode(raw[i]["Dealer Location"]) = d
               /\ InPivot(i)
               /\ Counts(raw[i])
              THEN ToNumeric(raw[i][amount]) ELSE 0])

\* C19: the month key of a record is the first three characters of its
\* trimmed Fiscal Month; a record whose key is none of the pivot's months
\* adds to no monthly column and to no Total of the three tables, its
\* division still has a row in each table and the record stays in source_df.
C19_RecordOutsidePivot ==
  WarrantyLoaded =>
    LET source_df == Get(WARRANTY_DATA.source_df)
    IN /\ Len(source_df) = Len(raw)
       /\ \A i \in 1..Len(raw) :
            /\ source_df[i]["Month"] = KeyOf(i)
            /\ source_df[i]["Fiscal Month"] = raw[i]["Fiscal Month"]
            /\ source_df[i]["Dealer Location"] = raw[i]["Dealer Location"]
            /\ (~InPivot(i) /\ raw[i]["Dealer Location"] # NaN) =>
                 LET code == DealerCode(raw[i]["Dealer Location"])
                 IN /\ RowsOfCode(credit, code) = 1
                    /\ RowsOfCode(debit, code) = 1
                    /\ RowsOfCode(arbitration, code) = 1
       /\ \A i \in 1..Len(DivisionRows(credit)) :
            credit.rows[i][<<"Total Credit">>] =
              Num(PivotAmount(credit.rows[i][DivisionCol],
                              "Credit Note Amount", Always))
       /\ \A i \in 1..Len(DivisionRows(debit)) :
            debit.rows[i][<<"Total Debit">>] =
              Num(PivotAmount(debit.rows[i][DivisionCol],
                              "Debit Note Amount", Always))
       /\ \A i \in 1..Len(DivisionRows(arbitration)) :
            RowSum(arbitration.rows[i], MonthColumns("Claim Arbitration")) =
              PivotAmount(arbitration.rows[i][DivisionCol],
                          "Debit Note Amount", IdStartsWithARB)

\* A December record of CHIKHALI next to an April record of AMT: CHI has a
\* row of zeros, AMT has its April debit, the source keeps both records.
C19_Witness ==
  /\ WarrantyLoaded
  /\ Len(raw) = 2
  /\ \E i \in 1..2 :
       /\ raw[i]["Dealer Location"] = CHIKHALI
       /\ KeyOf(i) = Dec
       /\ ToNumeric(raw[i]["Debit Note Amount"]) = 5
       /\ Get(WARRANTY_DATA.source_df)[i]["Month"] = Dec
  /\ Len(debit.rows) = 3
  /\ debit.rows[1][DivisionCol] = AMT
  /\ debit.rows[1][<<"Total Debit">>] = Num(40)
  /\ debit.rows[2][DivisionCol] = CHI
  /\ debit.rows[2][<<"Total Debit">>] = Num(0)
  /\ credit.rows[2][<<"Total Credit">>] = Num(0)
  /\ RowSum(arbitration.rows[2], MonthColumns("Claim Arbitration")) = 0
  /\ LastRow(debit)[<<"Total Debit">>] = Num(40)

\* ------------------------------------------------------------ amount cells
\* The sheet with every cell of its amount columns that is not a number
\* replaced by the number 0.
Zeroed(sheet, amounts) ==
  [sheet EXCEPT !.rows =
     [i \in 1..Len(sheet.rows) |->
        [c \in DOMAIN sheet.rows[i] |->
           IF c \in amounts \cap sheet.columns /\ sheet.rows[i][c][1] # "num"
             THEN Cell(0) ELSE sheet.rows[i][c]]]]

\* C20: a non-numeric or missing cell of an amount column counts as 0 in
\* every sum and average and neither fails the summarizer nor drops the
\* record: each summarizer returns what it returns for the workbook with
\* these cells set to 0.
C20_BadAmountCountsAsZero ==
  /\ pc # "warranty" =>
       LET w == process_warranty_data(
                  Zeroed(files.warranty,
                         {"Credit Note Amount", "Debit Note Amount"}))
       IN /\ WARRANTY_DATA.credit_df = w.credit_df
          /\ WARRANTY_DATA.debit_df = w.debit_df
          /\ WARRANTY_DATA.arbitration_df = w.arbitration_df
          /\ WARRANTY_DATA.source_df = w.source_df
          /\ WarrantyLoaded => Len(Get(WARRANTY_DATA.source_df)) = Len(raw)
  /\ pc \in {"pr_approval", "serving"} =>
       LET p == process_compensation_claim(
                  Zeroed(files.compensation,
                         {"Claim Amount", "Claim Approved Amt.", "No. of Days"}))
       IN /\ WARRANTY_DATA.compensation_df = p.summary
          /\ WARRANTY_DATA.compensation_source_df = p.source
  /\ pc = "serving" =>
       LET r == process_pr_approval(
                  Zeroed(files.pr_approval, {"App. Claim Amt from M&M"}))
       IN WARRANTY_DATA.pr_approval_df = r.summary

\* Two compensation records of AMT, the second without its No. of Days: both
\* are counted and the average is (3 + 0) / 2.
C20_Witness ==
  /\ pc = "serving"
  /\ files.compensation.rows =
       <<CompRow(AMT, Cell(100), Cell(80), Cell(3)),
         CompRow(AMT, Cell(20), Cell(20), EmptyCell)>>
  /\ files.compensation.columns = CompensationRequired
  /\ ~IsNone(WARRANTY_DATA.compensation_df)
  /\ Get(WARRANTY_DATA.compensation_df).rows[1][<<"Total Claims">>] = Num(2)
  /\ Get(WARRANTY_DATA.compensation_df).rows[1][<<"Total Claim Amount">>] = Num(120)
  /\ Get(WARRANTY_DATA.compensation_df).rows[1][<<"Avg No. of Days">>] = <<3, 2>>

\* ------------------------------------------------------- the side summaries
\* The rows of the current-month sheet as the workbook holds them, and the
\* summary startup stored for it.
cm_raw == files.current_month.rows

CurrentMonthLoaded ==
  pc \notin {"warranty", "current_month"} /\ ~IsNone(WARRANTY_DATA.current_month_df)

current_month == Get(WARRANTY_DATA.current_month_df)

\* The division of a raw row: its Division cell as text, trimmed.
DivisionOf(r) == Strip(AsTypeStr(r["Division"]))

\* The number of raw rows of division d whose cell in column is not missing.
CountOf(d, column) ==
  Cardinality({i \in 1..Len(cm_raw) :
                 DivisionOf(cm_raw[i]) = d /\ cm_raw[i][column][1] # "nan"})

\* C21: in the current-month summary every division has one row; its
\* Pending Claims Spares Count (Labour Count) is the number of the division's
\* raw rows whose 'Pending Claims Spares' ('Pending Claims Labour') cell is
\* not missing, Total Pending Claims is the sum of the two counts, and the
\* Grand Total row holds the sums of the three columns over the division rows.
C21_CurrentMonthCounts ==
  CurrentMonthLoaded =>
    /\ \A i \in 1..Len(cm_raw) :
         DivisionOf(cm_raw[i]) \notin {<<>>, <<"n", "a", "n">>} =>
           RowsOfCode(current_month, DivisionOf(cm_raw[i])) = 1
    /\ \A i \in 1..Len(DivisionRows(current_month)) :
         LET row == current_month.rows[i]
             spares == CountOf(row[DivisionCol], "Pending Claims Spares")
             labour == CountOf(row[DivisionCol], "Pending Claims Labour")
         IN /\ row[<<"Pending Claims Spares Count">>] = Num(spares)
            /\ row[<<"Pending Claims Labour Count">>] = Num(labour)
            /\ row[<<"Total Pending Claims">>] = Num(spares + labour)
    /\ \A c \in {<<"Pending Claims Spares Count">>,
                 <<"Pending Claims Labour Count">>, <<"Total Pending Claims">>} :
         LastRow(current_month)[c] =
           Num(SumSeq([i \in 1..Len(DivisionRows(current_month)) |->
                         Val(current_month.rows[i][c])]))

\* AMT has a spares cell and no labour cell, CHI a labour cell and no spares
\* cell: one pending claim each, two in the Grand Total row.
C21_Witness ==
  /\ CurrentMonthLoaded
  /\ Len(cm_raw) = 2
  /\ Len(current_month.rows) = 3
  /\ current_month.rows[1][DivisionCol] = AMT
  /\ current_month.rows[1][<<"Pending Claims Spares Count">>] = Num(1)
  /\ current_month.rows[1][<<"Pending Claims Labour Count">>] = Num(0)
  /\ current_month.rows[2][DivisionCol] = CHI
  /\ current_month.rows[2][<<"Pending Claims Spares Count">>] = Num(0)
  /\ current_month.rows[2][<<"Total Pending Claims">>] = Num(1)
  /\ LastRow(current_month)[<<"Total Pending Claims">>] = Num(2)

\* The rows and the columns of the compensation sheet as the workbook holds
\* them, and the summary startup stored for it.
comp_raw == files.compensation.rows
comp_columns == files.compensation.columns

CompensationLoaded ==
  /\ pc \in {"pr_approval", "serving"}
  /\ ~IsNone(WARRANTY_DATA.compensation_df)
  /\ "Division" \in comp_columns

compensation == Get(WARRANTY_DATA.compensation_df)

\* The raw rows of division d, and the sum of one of their columns, a cell
\* that is not a number counting as 0.
RowsOf(rows, d) == SelectSeq(rows, LAMBDA r : DivisionOf(r) = d)

SumOf(rows, d, column) ==
  SumSeq([i \in 1..Len(RowsOf(rows, d)) |->
            IF RowsOf(rows, d)[i][column][1] = "num"
              THEN RowsOf(rows, d)[i][column][2] ELSE 0])

RECURSIVE Product(_)
Product(s) == IF s = <<>> THEN 1 ELSE s[1] * Product(Tail(s))

\* C22: in the compensation summary every division d has one row with Total
\* Claims = the number of d's raw rows, Total Claim Amount and Total Approved
\* Amount = the sums of 'Claim Amount' and 'Claim Approved Amt.' over them,
\* and Avg No. of Days = the mean of 'No. of Days' over them; the Grand Total
\* row sums the count and the two amounts over the division rows, and its
\* Avg No. of Days is the mean of the division averages, each division
\* weighing the same.
C22_CompensationSummary ==
  CompensationLoaded =>
    LET divs == [i \in 1..Len(DivisionRows(compensation)) |->
                   compensation.rows[i][DivisionCol]]
        counts == [i \in 1..Len(divs) |-> Len(RowsOf(comp_raw, divs[i]))]
        total == LastRow(compensation)
    IN /\ \A i \in 1..Len(comp_raw) :
            DivisionOf(comp_raw[i]) \notin {<<>>, <<"n", "a", "n">>} =>
              RowsOfCode(compensation, DivisionOf(comp_raw[i])) = 1
       /\ \A i \in 1..Len(divs) :
            LET row == compensation.rows[i]
            IN /\ row[<<"Total Claims">>] = Num(counts[i])
               /\ "Claim Amount" \in comp_columns =>
                    row[<<"Total Claim Amount">>] =
                      Num(SumOf(comp_raw, divs[i], "Claim Amount"))
               /\ "Claim Approved Amt." \in comp_columns =>
                    row[<<"Total Approved Amount">>] =
                      Num(SumOf(comp_raw, divs[i], "Claim Approved Amt."))
               /\ "No. of Days" \in comp_columns =>
                    /\ row[<<"Avg No. of Days">>][2] > 0
                    /\ row[<<"Avg No. of Days">>][1] * counts[i] =
                         row[<<"Avg No. of Days">>][2]
                           * SumOf(comp_raw, divs[i], "No. of Days")
       /\ divs # <<>> =>
            /\ total[<<"Total Claims">>] = Num(SumSeq(counts))
            /\ "Claim Amount" \in comp_columns =>
                 total[<<"Total Claim Amount">>] =
                   Num(SumSeq([i \in 1..Len(divs) |->
                                 SumOf(comp_raw, divs[i], "Claim Amount")]))
            /\ "Claim Approved Amt." \in comp_columns =>
                 total[<<"Total Approved Amount">>] =
                   Num(SumSeq([i \in 1..Len(divs) |->
                                 SumOf(comp_raw, divs[i], "Claim Approved Amt.")]))
            /\ "No. of Days" \in comp_columns =>
                 /\ total[<<"Avg No. of Days">>][2] > 0
                 /\ total[<<"Avg No. of Days">>][1] * Len(divs) * Product(counts) =
                      total[<<"Avg No. of Days">>][2]
                        * SumSeq([i \in 1..Len(divs) |->
                                    SumOf(comp_raw, divs[i], "No. of Days")
                                      * (Product(counts) \div counts[i])])

\* AMT has two claims of 3 and 0 days, CHI one claim of 10 days: the
\* averages are 3/2 and 10, the Grand Total row holds (3/2 + 10) / 2 = 23/4,
\* neither their sum 23/2 nor the mean 13/3 of the three claims.
C22_Witness ==
  /\ CompensationLoaded
  /\ Len(comp_raw) = 3
  /\ Len(compensation.rows) = 3
  /\ compensation.rows[1][DivisionCol] = AMT
  /\ compensation.rows[1][<<"Total Claims">>] = Num(2)
  /\ compensation.rows[1][<<"Total Claim Amount">>] = Num(120)
  /\ compensation.rows[1][<<"Avg No. of Days">>] = <<3, 2>>
  /\ compensation.rows[2][<<"Avg No. of Days">>] = <<10, 1>>
  /\ compensation.rows[2][<<"Total Approved Amount">>] = Num(0)
  /\ LastRow(compensation)[<<"Total Claims">>] = Num(3)
  /\ LastRow(compensation)[<<"Total Approved Amount">>] = Num(100)
  /\ LastRow(compensation)[<<"Avg No. of Days">>] = <<23, 4>>

\* The rows and the columns of the first sheet of the warranty workbook, and
\* the PR approval summary startup stored for it.
pr_raw == files.pr_approval.rows
pr_columns == files.pr_approval.columns

PrApprovalLoaded ==
  /\ pc = "serving"
  /\ ~IsNone(WARRANTY_DATA.pr_approval_df)
  /\ "Division" \in pr_columns

pr_approval == Get(WARRANTY_DATA.pr_approval_df)

\* The raw rows whose division is neither empty nor 'nan'.
ValidRows(rows) ==
  SelectSeq(rows, LAMBDA r : DivisionOf(r) \notin {<<>>, <<"n", "a", "n">>})

\* C23: in the PR approval summary every division d has one row with Total
\* Requests = the number of d's raw rows and Total Approved Amount = the sum
\* of 'App. Claim Amt from M&M' over them; the Grand Total row's Total
\* Requests and Total Approved Amount are the sums over the division rows,
\* which are the count and the amount total of the raw rows with a valid
\* division.
C23_PrApprovalSummary ==
  (PrApprovalLoaded /\ "App. Claim Amt from M&M" \in pr_columns) =>
    LET valid == ValidRows(pr_raw)
        total == LastRow(pr_approval)
    IN /\ \A i \in 1..Len(valid) :
            RowsOfCode(pr_approval, DivisionOf(valid[i])) = 1
       /\ \A i \in 1..Len(DivisionRows(pr_approval)) :
            LET row == pr_approval.rows[i]
            IN /\ row[<<"Total Requests">>] =
                    Num(Len(RowsOf(pr_raw, row[DivisionCol])))
               /\ row[<<"Total Approved Amount">>] =
                    Num(SumOf(pr_raw, row[DivisionCol], "App. Claim Amt from M&M"))
       /\ valid # <<>> =>
            /\ total[<<"Total Requests">>] =
                 Num(SumSeq([i \in 1..Len(DivisionRows(pr_approval)) |->
                               Val(pr_approval.rows[i][<<"Total Requests">>])]))
            /\ total[<<"Total Requests">>] = Num(Len(valid))
            /\ total[<<"Total Approved Amount">>] =
                 Num(SumSeq([i \in 1..Len(DivisionRows(pr_approval)) |->
                               Val(pr_approval.rows[i][<<"Total Approved Amount">>])]))
            /\ total[<<"Total Approved Amount">>] =
                 Num(SumSeq([i \in 1..Len(valid) |->
                               IF valid[i]["App. Claim Amt from M&M"][1] = "num"
                                 THEN valid[i]["App. Claim Amt from M&M"][2]
                                 ELSE 0]))

\* Two requests of AMT, one written ' AMT': one division row with 2 requests
\* and 150, and the same in the Grand Total row.
C23_Witness ==
  /\ PrApprovalLoaded
  /\ Len(pr_raw) = 2
  /\ Len(pr_approval.rows) = 2
  /\ pr_approval.rows[1][DivisionCol] = AMT
  /\ pr_approval.rows[1][<<"Total Requests">>] = Num(2)
  /\ pr_approval.rows[1][<<"Total Approved Amount">>] = Num(150)
  /\ LastRow(pr_approval)[DivisionCol] = GrandTotal
  /\ LastRow(pr_approval)[<<"Total Requests">>] = Num(2)
  /\ LastRow(pr_approval)[<<"Total Approved Amount">>] = Num(150)

\* ------------------------------------------------------------------ exports
\* The six types POST /api/export-to-excel knows.
KnownTypes ==
  {"credit", "debit", "arbitration", "currentmonth", "compensation",
   "pr_approval"}

\* The summary table of the requested type is None, or has no row or no
\* column.
RequestedTableUnavailable ==
  LET df == WARRANTY_DATA[TableKey(requested_type)]
  IN IsNone(df) \/ Get(df).rows = <<>> \/ Get(df).columns = <<>>

\* C24: an export of one of the six types whose summary table is None or
\* empty is answered with HTTP 500 and without a workbook; every export
\* request is answered with an HTTP status, a workbook going with 200 only,
\* and no request changes WARRANTY_DATA.
C24_UnavailableTableAnswers500 ==
  /\ (Answered("export_to_excel") /\ requested_type \in KnownTypes
      /\ RequestedTableUnavailable) =>
       answer.status = 500 /\ IsNone(answer.body)
  /\ Answered("export_to_excel") =>
       /\ answer.status \in {200, 400, 500}
       /\ answer.status # 200 => IsNone(answer.body)
  /\ pc = "serving" => WARRANTY_DATA = StartupData

\* The compensation sheet has no Division column, its summary is the empty
\* frame, and the compensation export of all divisions answered 500.
C24_Witness ==
  /\ Answered("export_to_excel")
  /\ requested_type = "compensation"
  /\ requested_division = All
  /\ ~IsNone(WARRANTY_DATA.compensation_df)
  /\ Get(WARRANTY_DATA.compensation_df) = EmptyFrame
  /\ ~IsNone(WARRANTY_DATA.credit_df)
  /\ answer.status = 500
  /\ IsNone(answer.body)

\* C25: an export request whose type is none of the six known types is
\* answered with HTTP 400 and without a workbook, whatever the division and
\* whatever the datasets that loaded.
C25_InvalidTypeAnswers400 ==
  (Answered("export_to_excel") /\ requested_type \notin KnownTypes) =>
    answer.status = 400 /\ IsNone(answer.body)

\* No warranty workbook at all, a division and the type 'Credit' in capitals:
\* the answer is 400, not the 500 of the missing table.
C25_Witness ==
  /\ Answered("export_to_excel")
  /\ requested_type = "Credit"
  /\ requested_division = AMT
  /\ IsNone(WARRANTY_DATA.credit_df)
  /\ answer.status = 400
  /\ IsNone(answer.body)

\* The workbook of the export being answered, and the cleaned records
\* startup stored as source_df.
workbook == Get(answer.body)
source_records == Get(WARRANTY_DATA.source_df)

\* The stored records whose division code is d.
RecordsOfDivision(d) == SelectSeq(source_records, LAMBDA r : r["Dealer_Code"] = d)

\* The arbitration ID of a stored record is missing, empty or '-'.
IdEmptyOrHyphen(r) ==
  \/ IsNaText(r["Claim arbitration ID"])
  \/ Strip(r["Claim arbitration ID"]) \in {<<>>, <<"-">>, <<"n", "a", "n">>}

\* The selection of the detailed sheet by export type.
SelectedBy(type, r) ==
  CASE type = "credit" -> r["Credit Note Amount"] > 0 /\ IdEmptyOrHyphen(r)
    [] type = "debit" -> r["Debit Note Amount"] > 0
    [] type = "arbitration" -> IdStartsWithARB(r)

\* The record r is a row of the sheet, the debit amount under the name the
\* sheet gives it.
OnSheet(sheet, r) ==
  \E i \in 1..Len(sheet.rows) :
    \A c \in DOMAIN sheet.rows[i] :
      sheet.rows[i][c] =
        r[IF c \in {"Arbitration Amount", "Pending Arbitration Amount"}
            THEN "Debit Note Amount" ELSE c]

\* A credit, debit or arbitration export of one division that has a row in
\* the stored table of the type.
DivisionExport ==
  /\ Answered("export_to_excel")
  /\ requested_type \in {"credit", "debit", "arbitration"}
  /\ requested_division \notin {All, GrandTotal}
  /\ ~IsNone(WARRANTY_DATA[TableKey(requested_type)])
  /\ RowsOfCode(requested_table, requested_division) = 1

\* C26: a credit, debit or arbitration export of a division d that has a row
\* in the summary table is answered with a workbook whose detailed sheet
\* lists the stored records of division d selected by the type, and only
\* them, whether d is a code of the fixed table or an unmapped dealer
\* location.
C26_DetailSheetListsDivisionRecords ==
  DivisionExport =>
    /\ answer.status = 200
    /\ ~IsNone(workbook.detail)
    /\ LET selected ==
             SelectSeq(RecordsOfDivision(requested_division),
                       LAMBDA r : SelectedBy(requested_type, r))
       IN /\ Len(Get(workbook.detail).rows) = Len(selected)
          /\ \A i \in 1..Len(selected) : OnSheet(Get(workbook.detail), selected[i])

\* A stored record of a division with a positive debit amount.
Debited(r) == r["Debit Note Amount"] > 0

\* C27: an arbitration export of a mapped division d is answered with a
\* workbook in which every stored record of d with Debit Note Amount > 0 is
\* on exactly one of the sheets 'Detailed Data' and 'Pending Arb'.
C27_DebitRecordOnOneSheet ==
  (DivisionExport /\ requested_type = "arbitration"
   /\ requested_division \in {dealer_mapping[k] : k \in DOMAIN dealer_mapping}) =>
    /\ answer.status = 200
    /\ ~IsNone(workbook.detail)
    /\ ~IsNone(workbook.pending)
    /\ \A i \in 1..Len(RecordsOfDivision(requested_division)) :
         LET r == RecordsOfDivision(requested_division)[i]
         IN Debited(r) =>
              OnSheet(Get(workbook.detail), r) # OnSheet(Get(workbook.pending), r)

\* ------------------------------------------------- warranty table invariants
\* No raw record has a negative Debit Note Amount.
DebitsNonNegative ==
  \A i \in 1..Len(raw) : ToNumeric(raw[i]["Debit Note Amount"]) >= 0

\* A Pending Claim Arbitration cell holds a number, and it is not negative.
NonNegative(cell) == ~IsNaNum(cell) /\ Val(cell) >= 0

\* Raw record j is of division d, in a month of the pivot, not an
\* arbitration record, and its debit amount is negative.
NegativePlainDebit(j, d) ==
  /\ DealerCode(raw[j]["Dealer Location"]) = d
  /\ InPivot(j)
  /\ ~IdStartsWithARB(raw[j])
  /\ ToNumeric(raw[j]["Debit Note Amount"]) < 0

\* C28: when no raw Debit Note Amount is negative, every division d and
\* month m have 0 <= Claim Arbitration m[d] <= Debit Note m[d], and Pending
\* Claim Arbitration is >= 0 in every division row and in the Grand Total
\* row; and a negative Pending Claim Arbitration of a division comes with a
\* negative debit amount on one of its records that is no arbitration record.
C28_PendingNotNegative ==
  WarrantyLoaded =>
    /\ DebitsNonNegative =>
         /\ \A i \in 1..Len(DivisionRows(arbitration)) : \A k \in 1..Len(months) :
              /\ 0 <= Val(arbitration.rows[i][<<"Claim Arbitration", months[k]>>])
              /\ Val(arbitration.rows[i][<<"Claim Arbitration", months[k]>>])
                   <= Val(debit.rows[i][<<"Debit Note", months[k]>>])
         /\ \A i \in 1..Len(arbitration.rows) :
              NonNegative(arbitration.rows[i][<<"Pending Claim Arbitration">>])
    /\ \A i \in 1..Len(DivisionRows(arbitration)) :
         LET cell == arbitration.rows[i][<<"Pending Claim Arbitration">>]
         IN (~IsNaNum(cell) /\ Val(cell) < 0) =>
              \E j \in 1..Len(raw) :
                NegativePlainDebit(j, arbitration.rows[i][DivisionCol])

\* The four entries of WARRANTY_DATA that process_warranty_data returns.
WarrantyKeys == {"credit_df", "debit_df", "arbitration_df", "source_df"}

\* C29: after startup the entries credit_df, debit_df, arbitration_df and
\* source_df of WARRANTY_DATA are all None or all tables, so that GET
\* /api/warranty-data, which tests credit_df only, never reads a None debit
\* or arbitration table: it is always answered with 200.
C29_WarrantyTablesAllOrNone ==
  /\ pc # "warranty" =>
       \/ \A k \in WarrantyKeys : IsNone(WARRANTY_DATA[k])
       \/ \A k \in WarrantyKeys : ~IsNone(WARRANTY_DATA[k])
  /\ Answered("get_warranty_data") =>
       /\ answer.status = 200
       /\ IsNone(WARRANTY_DATA.credit_df) =>
            data.debit = <<>> /\ data.arbitration = <<>>
       /\ ~IsNone(WARRANTY_DATA.credit_df) =>
            /\ Len(data.debit) = Len(debit.rows)
            /\ Len(data.arbitration) = Len(arbitration.rows)

\* The warranty sheet was read and sorted() failed on a missing dealer next
\* to a named one: the four entries are None and the request is answered.
C29_Witness ==
  /\ Answered("get_warranty_data")
  /\ files.warranty.exists
  /\ WarrantyColumns \subseteq files.warranty.columns
  /\ \E i, j \in 1..Len(raw) :
       raw[i]["Dealer Location"] = NaN /\ raw[j]["Dealer Location"] = CHIKHALI
  /\ \A k \in WarrantyKeys : IsNone(WARRANTY_DATA[k])
  /\ answer.status = 200
  /\ data.debit = <<>>

\* The division codes of the rows of a table before its last row.
DivisionCodes(table) ==
  [i \in 1..Len(DivisionRows(table)) |-> table.rows[i][DivisionCol]]

\* The division rows of the debit table, the Grand Total row left out, whose
\* Division is d: the rows the join of the arbitration table matches.
JoinMatches(d) ==
  SelectSeq(debit.rows, LAMBDA r : r[DivisionCol] # GrandTotal /\ r[DivisionCol] = d)

\* C30: the credit, debit and arbitration tables of one run have the same
\* division rows in the same order, and the join of the arbitration table
\* with the Total Debit of the debit table finds exactly one value for every
\* division, never a missing one.
C30_SameDivisionRows ==
  WarrantyLoaded =>
    /\ DivisionCodes(credit) = DivisionCodes(debit)
    /\ DivisionCodes(debit) = DivisionCodes(arbitration)
    /\ \A i \in 1..Len(DivisionRows(arbitration)) :
         /\ Len(JoinMatches(arbitration.rows[i][DivisionCol])) = 1
         /\ ~IsNaNum(arbitration.rows[i][<<"Pending Claim Arbitration">>])

====
